---- MODULE Spec2Model ----
\* VirtuCamera for Maya: the command-protocol server of
\* src/plug-ins/virtuCameraMaya/virtuCameraMaya.py (class VirtuCameraMaya).
\* Threads are modelled with one program counter each; a step is one access to
\* shared state (a flag, a lock, the client socket, the host scene).
EXTENDS Integers, Sequences, FiniteSets, TLC

\* ---------------------------------------------------------------- bounds
MaxListeners == 2      \* _handle_tcp_socket threads that may exist at once
MaxClients == 1        \* client connections that may exist at once
MaxChunks == 2         \* recv() calls a payload may be split over
MaxAutosend == 1       \* _autosend_loop threads that may exist at once
MaxAnnounce == 2       \* _handle_server_announcement threads that may exist at once
MaxKeys == 1           \* key count of a keyframe batch
ScriptCount == 2       \* self._config.script_count: script 0 is empty
MaxBitrate == 10000    \* largest total bitrate of a stream, in kbit/s
MaxEntry == 1          \* matrix entries range over -MaxEntry..MaxEntry
MaxSent == 1           \* replies on record when the configuration is saved
MaxInterval == 3        \* largest autosend interval, in clock ticks
MaxDelay == 4           \* most ticks a frame takes, and latest start of a loop
MaxTime == 10           \* the clock value after which no iteration is started
MaxBatch == 2           \* most tuples in a batch whose keys are followed one by one
MaxKeyFrame == 2        \* largest frame number of a key

\* ---------------------------------------------------------------- constants
NoCamera == ""                    \* self.current_camera = ''
Cameras == {"camA", "camB"}       \* names the host scene may hold
Unset == "unset"                  \* an attribute that was never assigned
Free == "free"                    \* an unlocked thread.allocate_lock()

ListenerNames == <<"h1", "h2", "h3">>
ListenerThreads == {ListenerNames[i] : i \in 1..MaxListeners}
StopThread == "stop"
AutosendNames == <<"a1", "a2", "a3">>
AutosendThreads == {AutosendNames[i] : i \in 1..MaxAutosend}
AnnounceNames == <<"n1", "n2", "n3">>
AnnounceThreads == {AnnounceNames[i] : i \in 1..MaxAnnounce}
CallbackThread == "cb"           \* thread started by _after_save_callback
HostThread == "host"             \* the host's main thread, where UI callbacks run
Threads == ListenerThreads \cup {StopThread} \cup AutosendThreads \cup AnnounceThreads
               \cup {CallbackThread, HostThread}

ClientNames == <<"k1", "k2", "k3">>
ClientConns == {ClientNames[i] : i \in 1..MaxClients}
Loopbacks == {"lo"}             \* tempsock of _stop_tcp_accept
Conns == ClientConns \cup Loopbacks
NoList == <<Unset>>               \* self._scene_cameras before its first assignment
EOF == -1                         \* recv() returned ''
None == -1                        \* _tcp_recv returned None or ''

\* src/plug-ins/virtuCameraMaya/virtuCameraMayaConfig.py:36-38
CAPMODE_BUFFER_POINTER == "Viewport Buffer"
CAPMODE_SCREENSHOT == "Screenshot"
DEFAULT_CAPMODE == CAPMODE_BUFFER_POINTER
CaptureModes == {CAPMODE_BUFFER_POINTER, CAPMODE_SCREENSHOT}

_STREAM_WIDTH == 640              \* line 118
_STREAM_HEIGHT == 360             \* line 119
StreamSize == <<_STREAM_WIDTH, _STREAM_HEIGHT>>       \* line 287
TextSize == <<_STREAM_WIDTH + 2, _STREAM_HEIGHT>>     \* lines 213, 232-235, 305-308
\* sizes the host may give the streaming view
PanelSizes == {StreamSize, <<_STREAM_WIDTH \div 2, _STREAM_HEIGHT \div 2>>}


\* ---------------------------------------------------------------- opcodes
CMD_ASK_SERVER_INFO == 0
CMD_ASK_SCENE_STATUS == 1
CMD_ASK_SCENE_CAMERAS == 2
CMD_ASK_CAMERA_MATRIX == 3
CMD_ASK_VIEWPORT_IMG == 4
CMD_ASK_PLAY_FPS == 5
CMD_ASK_CAMERA_HAS_KEYS == 6
CMD_ASK_SCRIPT_INFO == 7
CMD_SET_PLAYBACK_RANGE == 50
CMD_SET_CURRENT_TIME == 51
CMD_SET_CURRENT_CAMERA == 52
CMD_SET_CAMERA_MATRIX == 53
CMD_SET_CAMERA_MATRIX_AT_TIME == 54
CMD_SET_FOCAL_LENGTH == 55
CMD_SET_FOCAL_LENGTH_AT_TIME == 56
CMD_SET_CAMERA_ALL == 57
CMD_SET_CAMERA_ALL_AT_TIME == 58
CMD_SET_CAMERA_MATRIX_KEYS == 59
CMD_SET_CAMERA_FLEN_KEYS == 60
CMD_DO_START_STREAMING == 150
CMD_DO_STOP_STREAMING == 151
CMD_DO_START_PLAYBACK == 152
CMD_DO_STOP_PLAYBACK == 153
CMD_DO_SWITCH_PLAYBACK == 154
CMD_DO_REMOVE_CAMERA_KEYS == 155
CMD_DO_CREATE_NEW_CAMERA == 156
CMD_DO_EXECUTE_SCRIPT == 157
CMD_ERR_MISSING_CAMERA == 200
CMD_ERR_NOT_STREAMING == 201
CMD_ERR_FFMPEG == 202
CMD_ERR_EXECUTE_SCRIPT == 203
NoCameraIndex == 65535            \* UInt16 max represents no current camera

\* Opcode bytes the routing table does not know, one from each range.
UnknownOps == {8, 61, 158, 204}

VARIABLES
    is_serving, is_connected, is_streaming, is_autosend,
    current_camera,     \* selected camera, NoCamera when none
    scene_cameras,      \* self._scene_cameras: Unset or the list last sent
    cams,               \* cameras that exist in the host scene
    tcp_lock,           \* self._tcp_lock: Free or the holding thread
    fout_lock,          \* self._fout_lock
    proc,               \* self._proc: Unset, "running", "exited"
    fout,               \* self._fout: Unset, "open", "closed"
    ui_bt_serve,        \* command of the serve button: "start" or "stop"
    maya_lock,          \* self._maya_lock: Free or the holding thread
    ui_view,            \* self._ui_view: the "text" control or the streaming "panel"
    is_streaming_screenshot, \* self._is_streaming_screenshot
    view_size,          \* width and height the control self._ui_view really has
    real_stream_size,   \* self._real_stream_width, self._real_stream_height
    input,              \* arguments of the last call of a function of the scene adapter
    output,             \* what that call returned
    is_announcing,      \* self._is_announcing
    zconf,              \* self._zconf: Unset, "registered", "empty", "closed"
    had_client,         \* a client was accepted since the server began to serve
    srv_socket,         \* self._tcp_srv_socket: Unset, "listening", "closed"
    backlog,            \* connections waiting in the listen queue
    clt_socket,         \* self._tcp_clt_socket: Unset or a connection
    conn,               \* state of every connection
    pc,                 \* position of every thread
    stack,              \* return positions of every thread
    sock,               \* listener: socket object its blocking recv uses
    cmd,                \* listener: opcode being processed
    data,               \* listener: payload returned by _tcp_recv
    want,               \* listener: exact_len of the running _tcp_recv
    got,                \* listener: data_len of the running _tcp_recv
    sent,               \* per listener: bytes sent since it read its opcode
    scene_calls,        \* per listener: scene mutations of its command
    payload_read,       \* per listener: payload bytes of its command were read
    eof_seen,           \* per listener: a payload recv() returned ''
    outcome             \* per listener: how its last handler ended

flags == <<is_serving, is_connected, is_streaming, is_autosend>>
session == <<current_camera, scene_cameras>>
locks == <<tcp_lock, fout_lock>>
encoder == <<proc, fout>>
capture == <<view_size, real_stream_size>>
calc == <<input, output>>
host == <<maya_lock, ui_view, is_streaming_screenshot, capture>>
announce == <<is_announcing, zconf, had_client>>
net == <<srv_socket, backlog, clt_socket, conn>>
ctl == <<pc, stack>>
locals == <<sock, cmd, data, want, got>>
ghost == <<sent, scene_calls, payload_read, eof_seen, outcome>>
vars == <<flags, session, cams, calc, locks, encoder, ui_bt_serve, host, announce, net, ctl, locals,
          ghost>>

Goto(t, l) == pc' = [pc EXCEPT ![t] = l]

\* src/plug-ins/virtuCameraMaya/virtuCameraMaya.py:337-355 (__init__)
InitServer ==
    /\ is_serving = FALSE /\ is_connected = FALSE
    /\ is_streaming = FALSE /\ is_autosend = FALSE
    /\ current_camera = NoCamera
    /\ scene_cameras = NoList
    /\ cams = {"camA"}
    /\ tcp_lock = Free /\ fout_lock = Free
    /\ proc = Unset /\ fout = Unset
    /\ ui_bt_serve = "start"
    /\ maya_lock = Free /\ ui_view = "text" /\ is_streaming_screenshot = FALSE
    /\ view_size = TextSize /\ real_stream_size = Unset
    /\ is_announcing = FALSE /\ zconf = Unset /\ had_client = FALSE
    /\ srv_socket = Unset /\ backlog = <<>> /\ clt_socket = Unset
    /\ conn = [k \in Conns |-> "closed"]
    /\ pc = [t \in Threads |-> "idle"]
    /\ stack = [t \in Threads |-> <<>>]
    /\ sock = [t \in ListenerThreads |-> Unset]
    /\ cmd = [t \in ListenerThreads |-> EOF]
    /\ data = [t \in ListenerThreads |-> None]
    /\ want = [t \in ListenerThreads |-> 0]
    /\ got = [t \in ListenerThreads |-> 0]
    /\ sent = [t \in ListenerThreads |-> <<>>]
    /\ scene_calls = [t \in ListenerThreads |-> <<>>]
    /\ payload_read = [t \in ListenerThreads |-> FALSE]
    /\ eof_seen = [t \in ListenerThreads |-> FALSE]
    /\ outcome = [t \in ListenerThreads |-> "none"]

\* no function of the adapter has been called
Init == InitServer /\ input = <<Unset>> /\ output = Unset

\* ------------------------------------------------------- control helpers
Call(t, l, back) ==
    /\ pc' = [pc EXCEPT ![t] = l]
    /\ stack' = [stack EXCEPT ![t] = <<back>> \o @]

Return(t) ==
    /\ pc' = [pc EXCEPT ![t] = Head(stack[t])]
    /\ stack' = [stack EXCEPT ![t] = Tail(@)]

\* An exception nobody catches ends the thread (thread.start_new_thread prints
\* the traceback); a with-block it unwinds releases its lock.
Raise(t, why) ==
    /\ pc' = [pc EXCEPT ![t] = why]
    /\ stack' = [stack EXCEPT ![t] = <<>>]

\* where a thread stops when an exception ended it, by the call that raised
DeadPcs == {"dead_accept", "dead_send", "dead_recv", "dead_attr", "dead_index",
            "dead_host"}

Unlocked(l, t) == IF l = t THEN Free ELSE l

\* Connections no thread and no attribute refers to can be opened again.
Referenced(k) ==
    \/ clt_socket = k
    \/ \E t \in ListenerThreads : sock[t] = k

Reusable(k) == conn[k] = "closed" /\ ~Referenced(k)

Stopped == {"idle"} \cup DeadPcs

\* The first thread of names[1..n] that is not running, Unset when all are.
FreeThread(names, n) ==
    IF \E i \in 1..n : pc[names[i]] \in Stopped
    THEN names[CHOOSE i \in 1..n :
                 /\ pc[names[i]] \in Stopped
                 /\ \A j \in 1..(i - 1) : pc[names[j]] \notin Stopped]
    ELSE Unset

\* -------------------------------------------------- _serve (UI callback)
\* src/plug-ins/virtuCameraMaya/virtuCameraMaya.py:1197-1206
\* lines 185-186, 227, 248: the click of the button while it starts serving
_serve ==
    /\ ui_bt_serve = "start"
    /\ ~is_serving
    /\ \E bound \in BOOLEAN :
        LET t == FreeThread(ListenerNames, MaxListeners) IN
        /\ t # Unset
        /\ is_serving' = TRUE
        /\ had_client' = FALSE
        /\ IF bound
           THEN /\ srv_socket' = "listening"
                /\ backlog' = <<>>
                /\ Goto(t, "while_serving")
                /\ ui_bt_serve' = "stop"                   \* lines 1206, 240
           ELSE UNCHANGED <<ui_bt_serve, srv_socket, backlog, pc>>     \* bind() raised
    /\ UNCHANGED <<is_connected, is_streaming, is_autosend, session, cams, calc, locks,
                   encoder, host, is_announcing, zconf, clt_socket, conn, stack, locals,
                   ghost>>

\* ------------------------------------------------- _handle_tcp_socket
\* line 1164: while self.is_serving (1165-1167: announcement, print)
while_serving(t, announcers) ==
    /\ pc[t] = "while_serving"
    /\ IF ~is_serving
       THEN Goto(t, "stopped")
       ELSE IF announcers = 0 \/ is_announcing
       THEN Goto(t, "accept")
       ELSE LET a == FreeThread(AnnounceNames, announcers) IN
              /\ a # Unset
              /\ pc' = [pc EXCEPT ![t] = "accept", ![a] = "_handle_server_announcement"]
    /\ UNCHANGED <<flags, session, cams, calc, locks, encoder, ui_bt_serve, host, announce, net, stack,
                   locals, ghost>>

\* line 1168: the call of accept(); a closed socket object raises
accept_call(t) ==
    /\ pc[t] = "accept"
    /\ IF srv_socket = "listening"
       THEN Goto(t, "accept_wait") /\ UNCHANGED stack
       ELSE Raise(t, "dead_accept")
    /\ UNCHANGED <<flags, session, cams, calc, locks, encoder, ui_bt_serve, host, announce, net, locals, ghost>>

\* line 1168: accept() returns the oldest queued connection
accept_return(t) ==
    /\ pc[t] = "accept_wait"
    /\ backlog # <<>>
    /\ LET k == Head(backlog) IN
        /\ clt_socket' = k
        /\ conn' = [conn EXCEPT ![k] = IF k \in Loopbacks THEN "peer_closed" ELSE "open"]
    /\ backlog' = Tail(backlog)
    /\ Goto(t, "accepted")
    /\ UNCHANGED <<flags, session, cams, calc, locks, encoder, ui_bt_serve, host, announce, srv_socket, stack, locals, ghost>>

\* the accepted connection becomes a session without the test of line 1169
accepted_unchecked(t) ==
    \/ /\ pc[t] = "accepted"                     \* line 1169
       /\ Goto(t, "connected")
       /\ UNCHANGED <<flags, session, cams, calc, locks, encoder, ui_bt_serve, host, announce, net,
                      stack, locals, ghost>>
    \/ /\ pc[t] = "connected"                    \* lines 1170-1172
       /\ maya_lock = Free
       /\ is_connected' = TRUE
       /\ had_client' = (had_client \/ clt_socket \in ClientConns)
       /\ Goto(t, "cmd_loop")
       /\ UNCHANGED <<is_serving, is_streaming, is_autosend, session, cams, calc, locks,
                      encoder, ui_bt_serve, host, is_announcing, zconf, net, stack, locals,
                      ghost>>

\* lines 1169-1172: if self.is_serving: self.is_connected = True
accepted(t) ==
    \/ /\ pc[t] = "accepted"                     \* line 1169
       /\ Goto(t, IF is_serving THEN "connected" ELSE "close")
       /\ UNCHANGED <<flags, session, cams, calc, locks, encoder, ui_bt_serve, host, announce, net,
                      stack, locals, ghost>>
    \/ /\ pc[t] = "connected"                    \* lines 1170-1172
       /\ maya_lock = Free
       /\ is_connected' = TRUE
       /\ had_client' = (had_client \/ clt_socket \in ClientConns)
       /\ Goto(t, "cmd_loop")
       /\ UNCHANGED <<is_serving, is_streaming, is_autosend, session, cams, calc, locks,
                      encoder, ui_bt_serve, host, is_announcing, zconf, net, stack, locals,
                      ghost>>

\* line 1173: while self.is_serving; 1175 evaluates self._tcp_clt_socket
cmd_loop(t) ==
    /\ pc[t] = "cmd_loop"
    /\ IF is_serving
       THEN Goto(t, "recv_cmd") /\ sock' = [sock EXCEPT ![t] = clt_socket]
       ELSE Goto(t, "disconnect") /\ UNCHANGED sock
    /\ data' = [data EXCEPT ![t] = None]
    /\ want' = [want EXCEPT ![t] = 0]
    /\ got' = [got EXCEPT ![t] = 0]
    /\ UNCHANGED <<flags, session, cams, calc, locks, encoder, ui_bt_serve, host, announce, net, stack, cmd, ghost>>

\* line 1182
disconnect(t) ==
    /\ pc[t] = "disconnect"
    /\ is_connected' = FALSE
    /\ Goto(t, "disc_streaming")
    /\ UNCHANGED <<is_serving, is_streaming, is_autosend, session, cams, calc, locks,
                   encoder, ui_bt_serve, host, announce, net, stack, locals, ghost>>

\* lines 1183-1184: if self.is_streaming: self._stop_streaming()
disc_streaming(t) ==
    /\ pc[t] = "disc_streaming"
    /\ IF is_streaming
       THEN Call(t, "stop_streaming", "disc_ui")
       ELSE Goto(t, "disc_ui") /\ UNCHANGED stack
    /\ UNCHANGED <<flags, session, cams, calc, locks, encoder, ui_bt_serve, host, announce, net, locals, ghost>>

\* lines 1185-1188: serving UI (line 240), print, self.current_camera = ''
disc_ui(t) ==
    /\ pc[t] = "disc_ui"
    /\ maya_lock = Free
    /\ ui_bt_serve' = IF is_serving THEN "stop" ELSE ui_bt_serve
    /\ current_camera' = NoCamera
    /\ Goto(t, "close")
    /\ UNCHANGED <<flags, scene_cameras, cams, calc, locks, encoder, host, announce, net, stack, locals, ghost>>

\* line 1189: self._tcp_clt_socket.close()
close(t) ==
    /\ pc[t] = "close"
    /\ conn' = [conn EXCEPT ![clt_socket] = "closed"]
    /\ Goto(t, "while_serving")
    /\ sock' = [sock EXCEPT ![t] = Unset]
    /\ cmd' = [cmd EXCEPT ![t] = EOF]
    /\ sent' = [sent EXCEPT ![t] = <<>>]
    /\ scene_calls' = [scene_calls EXCEPT ![t] = <<>>]
    /\ payload_read' = [payload_read EXCEPT ![t] = FALSE]
    /\ eof_seen' = [eof_seen EXCEPT ![t] = FALSE]
    /\ outcome' = [outcome EXCEPT ![t] = "none"]
    /\ UNCHANGED <<flags, session, cams, calc, locks, encoder, ui_bt_serve, host, announce, srv_socket, backlog,
                   clt_socket, stack, data, want, got>>

\* line 1190: the thread function returns
stopped(t) ==
    /\ pc[t] = "stopped"
    /\ Goto(t, "idle")
    /\ UNCHANGED <<flags, session, cams, calc, locks, encoder, ui_bt_serve, host, announce, net, stack, locals, ghost>>

\* ---------------------------------------------- _handle_server_announcement
\* src/plug-ins/virtuCameraMaya/virtuCameraMaya.py:1135-1144. Each access to
\* self._zconf is made inside "with self._zconf_lock". The test of line 1141
\* and the call of line 1142 are two steps: the flags the test reads are
\* written by other threads that do not take that lock.
_handle_server_announcement(a) ==
    \/ /\ pc[a] = "_handle_server_announcement"  \* line 1136
       /\ is_announcing' = TRUE
       /\ Goto(a, "_server_register")
       /\ UNCHANGED <<flags, session, cams, calc, locks, encoder, ui_bt_serve, host, zconf,
                      had_client, net, stack, locals, ghost>>
    \/ /\ pc[a] = "_server_register"             \* lines 1137, 1114-1129
       /\ \E ips \in BOOLEAN : zconf' = IF ips THEN "registered" ELSE "empty"
       /\ Goto(a, "announce_while")
       /\ UNCHANGED <<flags, session, cams, calc, locks, encoder, ui_bt_serve, host, is_announcing,
                      had_client, net, stack, locals, ghost>>
    \/ /\ pc[a] = "announce_while"               \* line 1138
       /\ Goto(a, IF is_serving /\ ~is_connected THEN "announce_sleep" ELSE "announce_end")
       /\ UNCHANGED <<flags, session, cams, calc, locks, encoder, ui_bt_serve, host, announce, net,
                      stack, locals, ghost>>
    \/ /\ pc[a] = "announce_sleep"               \* lines 1139-1141: sleep, lock, test
       /\ Goto(a, IF is_serving /\ ~is_connected THEN "re_register" ELSE "announce_while")
       /\ UNCHANGED <<flags, session, cams, calc, locks, encoder, ui_bt_serve, host, announce, net,
                      stack, locals, ghost>>
    \/ /\ pc[a] = "re_register"                  \* line 1142: re_register_all_services
       /\ Goto(a, "announce_while")
       /\ UNCHANGED <<flags, session, cams, calc, locks, encoder, ui_bt_serve, host, announce, net,
                      stack, locals, ghost>>
    \/ /\ pc[a] = "announce_end"                 \* line 1143
       /\ is_announcing' = FALSE
       /\ Goto(a, "_server_unregister")
       /\ UNCHANGED <<flags, session, cams, calc, locks, encoder, ui_bt_serve, host, zconf,
                      had_client, net, stack, locals, ghost>>
    \/ /\ pc[a] = "_server_unregister"           \* lines 1144, 1131-1133
       /\ zconf' = "closed"
       /\ Goto(a, "idle")
       /\ UNCHANGED <<flags, session, cams, calc, locks, encoder, ui_bt_serve, host, is_announcing,
                      had_client, net, stack, locals, ghost>>

\* ------------------------------------------------------ _stop_streaming
\* _stop_streaming without its "if not self.is_streaming: return"
stop_streaming_unguarded(t) ==
    /\ pc[t] = "stop_streaming"
    /\ Goto(t, "ss_clear")
    /\ UNCHANGED <<flags, session, cams, calc, locks, encoder, ui_bt_serve, host, announce, net, stack, locals,
                   ghost>>

\* src/plug-ins/virtuCameraMaya/virtuCameraMaya.py:520-528
\* lines 521-522: if not self.is_streaming: return
stop_streaming(t) ==
    /\ pc[t] = "stop_streaming"
    /\ IF is_streaming
       THEN Goto(t, "ss_clear") /\ UNCHANGED stack
       ELSE Return(t)
    /\ UNCHANGED <<flags, session, cams, calc, locks, encoder, ui_bt_serve, host, announce, net, locals, ghost>>

\* line 523: self.is_streaming = False
ss_clear(t) ==
    /\ pc[t] = "ss_clear"
    /\ is_streaming' = FALSE
    /\ Goto(t, "ss_close")
    /\ UNCHANGED <<is_serving, is_connected, is_autosend, session, cams, calc, locks,
                   encoder, ui_bt_serve, host, announce, net, stack, locals, ghost>>

\* the close of the pipe without waiting for self._fout_lock
ss_close_unlocked(t) ==
    \/ /\ pc[t] = "ss_close"                      \* line 524
       /\ fout_lock' = t
       /\ Goto(t, "ss_closing")
       /\ UNCHANGED <<flags, session, cams, calc, tcp_lock, encoder, ui_bt_serve, host, announce, net, stack,
                      locals, ghost>>
    \/ /\ pc[t] = "ss_closing"                    \* line 525
       /\ fout_lock' = Free
       /\ IF fout = Unset
          THEN Raise(t, "dead_attr") /\ tcp_lock' = Unlocked(tcp_lock, t) /\ UNCHANGED fout
          ELSE fout' = "closed" /\ Goto(t, "ss_wait") /\ UNCHANGED <<stack, tcp_lock>>
       /\ UNCHANGED <<flags, session, cams, calc, proc, ui_bt_serve, host, announce, net, locals, ghost>>

\* lines 524-525: with self._fout_lock: self._fout.close()
ss_close(t) ==
    \/ /\ pc[t] = "ss_close"                      \* line 524
       /\ fout_lock = Free
       /\ fout_lock' = t
       /\ Goto(t, "ss_closing")
       /\ UNCHANGED <<flags, session, cams, calc, tcp_lock, encoder, ui_bt_serve, host, announce, net, stack,
                      locals, ghost>>
    \/ /\ pc[t] = "ss_closing"                    \* line 525
       /\ fout_lock' = Free
       /\ IF fout = Unset
          THEN Raise(t, "dead_attr") /\ tcp_lock' = Unlocked(tcp_lock, t) /\ UNCHANGED fout
          ELSE fout' = "closed" /\ Goto(t, "ss_wait") /\ UNCHANGED <<stack, tcp_lock>>
       /\ UNCHANGED <<flags, session, cams, calc, proc, ui_bt_serve, host, announce, net, locals, ghost>>

\* line 526: self._proc.wait(); the encoder exits once its input is closed.
\* While a listener is between Popen and line 515, self._proc is an encoder
\* whose input no thread can close yet: wait() returns only if it has died.
ss_wait(t) ==
    /\ pc[t] = "ss_wait"
    /\ fout = "closed"
    /\ proc = "exited" \/ \A h \in ListenerThreads : pc[h] # "st_fout"
    /\ proc' = "exited"
    /\ Goto(t, "ss_autosend")
    /\ UNCHANGED <<flags, session, cams, calc, locks, fout, ui_bt_serve, host, announce, net, stack, locals, ghost>>

\* lines 527-528: self.is_autosend = False; self._deinit_streaming_ui()
ss_autosend(t) ==
    /\ pc[t] = "ss_autosend"
    /\ is_autosend' = FALSE
    /\ Goto(t, "deinit_ui")
    /\ UNCHANGED <<is_serving, is_connected, is_streaming, session, cams, calc, locks,
                   encoder, ui_bt_serve, host, announce, net, stack, locals, ghost>>

\* _deinit_streaming_ui with a _maya_exec that takes self._maya_lock without
\* waiting for it
_deinit_streaming_ui_unlocked(t) ==
    \/ /\ pc[t] = "deinit_ui"                     \* lines 467, 378
       /\ maya_lock' = t
       /\ Goto(t, "deinit_ui_host")
       /\ UNCHANGED <<flags, session, cams, calc, locks, encoder, ui_bt_serve, announce, ui_view,
                      is_streaming_screenshot, capture, net, stack, locals, ghost>>
    \/ /\ pc[t] = "deinit_ui_host"                \* lines 298-310: _stop_streaming_ui
       /\ ui_view' = "text"
       /\ view_size' = TextSize                   \* lines 305-308
       /\ maya_lock' = Free
       /\ Goto(t, "deinit_view")
       /\ UNCHANGED <<flags, session, cams, calc, locks, encoder, ui_bt_serve, announce,
                      is_streaming_screenshot, real_stream_size, net, stack, locals, ghost>>
    \/ /\ pc[t] = "deinit_view"                   \* lines 469-470: sleep, active view
       /\ maya_lock = Free
       /\ Return(t)
       /\ UNCHANGED <<flags, session, cams, calc, locks, encoder, ui_bt_serve, host, announce, net, locals,
                      ghost>>

\* lines 466-470, each host call inside _maya_exec (lines 377-380)
_deinit_streaming_ui(t) ==
    \/ /\ pc[t] = "deinit_ui"                     \* lines 467, 378
       /\ maya_lock = Free
       /\ maya_lock' = t
       /\ Goto(t, "deinit_ui_host")
       /\ UNCHANGED <<flags, session, cams, calc, locks, encoder, ui_bt_serve, announce, ui_view,
                      is_streaming_screenshot, capture, net, stack, locals, ghost>>
    \/ /\ pc[t] = "deinit_ui_host"                \* lines 298-310: _stop_streaming_ui
       /\ ui_view' = "text"
       /\ view_size' = TextSize                   \* lines 305-308
       /\ maya_lock' = Free
       /\ Goto(t, "deinit_view")
       /\ UNCHANGED <<flags, session, cams, calc, locks, encoder, ui_bt_serve, announce,
                      is_streaming_screenshot, real_stream_size, net, stack, locals, ghost>>
    \/ /\ pc[t] = "deinit_view"                   \* lines 469-470: sleep, active view
       /\ maya_lock = Free
       /\ Return(t)
       /\ UNCHANGED <<flags, session, cams, calc, locks, encoder, ui_bt_serve, host, announce, net, locals,
                      ghost>>

\* ---------------------------------------------------------------- _stop
\* src/plug-ins/virtuCameraMaya/virtuCameraMaya.py:188-193, 1208-1217
\* _stop_serving / _close_ui: thread.start_new_thread(self._stop, ())
stop_click ==
    /\ ui_bt_serve = "stop"
    /\ pc[StopThread] \in Stopped
    /\ Goto(StopThread, "stop_lock")
    /\ UNCHANGED <<flags, session, cams, calc, locks, encoder, ui_bt_serve, host, announce, net, stack, locals, ghost>>

\* lines 1209-1211: with self._tcp_lock: if self.is_serving: is_serving = False
stop_lock ==
    /\ pc[StopThread] = "stop_lock"
    /\ tcp_lock = Free
    /\ IF is_serving
       THEN /\ is_serving' = FALSE
            /\ tcp_lock' = StopThread
            /\ Goto(StopThread, "stop_if_streaming")
       ELSE /\ UNCHANGED <<is_serving, tcp_lock>>
            /\ Goto(StopThread, "idle")
    /\ UNCHANGED <<is_connected, is_streaming, is_autosend, session, cams, calc, fout_lock,
                   encoder, ui_bt_serve, host, announce, net, stack, locals, ghost>>

\* lines 1212-1213: if self.is_streaming: self._stop_streaming()
stop_if_streaming ==
    /\ pc[StopThread] = "stop_if_streaming"
    /\ IF is_streaming
       THEN Call(StopThread, "stop_streaming", "stop_if_connected")
       ELSE Goto(StopThread, "stop_if_connected") /\ UNCHANGED stack
    /\ UNCHANGED <<flags, session, cams, calc, locks, encoder, ui_bt_serve, host, announce, net, locals, ghost>>

\* lines 1214-1215 and 1192-1195: the loopback connection that wakes accept()
stop_if_connected ==
    /\ pc[StopThread] = "stop_if_connected"
    /\ IF is_connected
       THEN UNCHANGED <<conn, backlog>>
       ELSE \E k \in Loopbacks :
              /\ Reusable(k)
              /\ conn' = [conn EXCEPT ![k] = "pending"]
              /\ backlog' = Append(backlog, k)
    /\ Goto(StopThread, "stop_close")
    /\ UNCHANGED <<flags, session, cams, calc, locks, encoder, ui_bt_serve, host, announce, srv_socket, clt_socket,
                   stack, locals, ghost>>

\* lines 1216-1217: close the listening socket, stopped UI, release the lock.
\* A queued connection survives only while a blocked accept() holds the socket.
stop_close ==
    /\ pc[StopThread] = "stop_close"
    /\ maya_lock = Free
    /\ srv_socket' = "closed"
    /\ ui_bt_serve' = "start"
    /\ IF \E t \in ListenerThreads : pc[t] = "accept_wait"
       THEN UNCHANGED <<backlog, conn>>
       ELSE /\ backlog' = <<>>
            /\ conn' = [k \in Conns |-> IF conn[k] = "pending" THEN "closed" ELSE conn[k]]
    /\ tcp_lock' = Free
    /\ Goto(StopThread, "idle")
    /\ UNCHANGED <<flags, session, cams, calc, fout_lock, encoder, host, announce, clt_socket, stack,
                   locals, ghost>>

\* ------------------------------------------------------------ the client
ClientConnect(k) ==
    /\ srv_socket = "listening"
    /\ Reusable(k)
    /\ Len(backlog) < 2
    /\ conn' = [conn EXCEPT ![k] = "pending"]
    /\ backlog' = Append(backlog, k)
    /\ UNCHANGED <<flags, session, cams, calc, locks, encoder, ui_bt_serve, host, announce, srv_socket, clt_socket,
                   ctl, locals, ghost>>

\* the peer closes its end: recv() returns ''
ClientClose(k) ==
    /\ conn[k] = "open"
    /\ conn' = [conn EXCEPT ![k] = "peer_closed"]
    /\ UNCHANGED <<flags, session, cams, calc, locks, encoder, ui_bt_serve, host, announce, srv_socket, backlog,
                   clt_socket, ctl, locals, ghost>>

\* the connection breaks: recv() and send() raise socket.error
ClientReset(k) ==
    /\ conn[k] = "open"
    /\ conn' = [conn EXCEPT ![k] = "reset"]
    /\ UNCHANGED <<flags, session, cams, calc, locks, encoder, ui_bt_serve, host, announce, srv_socket, backlog,
                   clt_socket, ctl, locals, ghost>>

\* ---------------------------------------------------------- the host scene
\* the user deletes a camera in the host application
HostDeleteCamera(c) ==
    /\ c \in cams
    /\ cams' = cams \ {c}
    /\ UNCHANGED <<flags, session, calc, locks, encoder, ui_bt_serve, host, announce, net, ctl, locals, ghost>>

\* ------------------------------------------------------------- transport
Jump(t, next) ==
    IF next = "return" THEN Return(t) ELSE Goto(t, next) /\ UNCHANGED stack

\* The handler is over: back to the command loop (line 1173).
Done(t, how) == Goto(t, "cmd_loop") /\ outcome' = [outcome EXCEPT ![t] = how]

\* _tcp_send, lines 359-360, inside the with-block. send() on a broken
\* connection raises; once the peer has closed it may still succeed.
SocketSend(t, op, arg, next) ==
    /\ IF is_serving /\ is_connected
       THEN \/ /\ conn[clt_socket] \in {"open", "peer_closed"}
               /\ sent' = [h \in ListenerThreads |->
                            IF h = t \/ (t \notin ListenerThreads /\ cmd[h] # EOF)
                            THEN Append(sent[h], <<t, op, arg>>) ELSE sent[h]]
               /\ Jump(t, next)
            \/ /\ conn[clt_socket] # "open"
               /\ UNCHANGED sent
               /\ Raise(t, "dead_send")
       ELSE UNCHANGED sent /\ Jump(t, next)

\* _tcp_send that sends without waiting for self._tcp_lock
TcpSend_unlocked(t, op, arg, next) == SocketSend(t, op, arg, next)

\* _tcp_send, lines 357-360: with self._tcp_lock
TcpSend(t, op, arg, next) ==
    /\ tcp_lock = Free
    /\ SocketSend(t, op, arg, next)

\* recv() calls needed for exact_len bytes, at most MaxChunks
Need(len) == IF len < MaxChunks THEN len ELSE MaxChunks

\* what the decoded payload may be
RecvValues(t) ==
    IF want[t] = 0 THEN {None}
    ELSE IF cmd[t] = CMD_SET_CURRENT_CAMERA THEN {0, 1, 2, NoCameraIndex}
    ELSE IF cmd[t] = CMD_DO_START_STREAMING THEN {0, 1}
    ELSE IF cmd[t] = CMD_DO_EXECUTE_SCRIPT THEN 0..ScriptCount
    ELSE IF cmd[t] \in {CMD_SET_CAMERA_MATRIX_KEYS, CMD_SET_CAMERA_FLEN_KEYS}
         THEN (IF Head(stack[t]) = "keys_count" THEN 0..MaxKeys ELSE {data[t]})
    ELSE {0}

CallRecv(t, len, back) ==
    /\ Call(t, "tcp_recv", back)
    /\ want' = [want EXCEPT ![t] = len]

\* _tcp_recv, lines 367-369
tcp_recv(t) ==
    /\ pc[t] = "tcp_recv"
    /\ tcp_lock = Free
    /\ IF is_serving /\ is_connected
       THEN /\ tcp_lock' = t
            /\ got' = [got EXCEPT ![t] = 0]
            /\ Goto(t, "tcp_recv_test")
            /\ UNCHANGED <<stack, data>>
       ELSE /\ data' = [data EXCEPT ![t] = None]
            /\ Return(t)
            /\ UNCHANGED <<tcp_lock, got>>
    /\ UNCHANGED <<flags, session, cams, calc, fout_lock, encoder, ui_bt_serve, host, announce, net, sock, cmd, want, ghost>>

\* _tcp_recv, lines 371 and 375
tcp_recv_test(t) ==
    /\ pc[t] = "tcp_recv_test"
    /\ IF got[t] < Need(want[t])
       THEN /\ Goto(t, "tcp_recv_call")
            /\ UNCHANGED <<stack, data, tcp_lock>>
       ELSE /\ \E v \in RecvValues(t) : data' = [data EXCEPT ![t] = v]
            /\ tcp_lock' = Free
            /\ Return(t)
    /\ UNCHANGED <<flags, session, cams, calc, fout_lock, encoder, ui_bt_serve, host, announce, net, sock, cmd, want, got,
                   ghost>>

\* _tcp_recv, lines 372-374: one recv() on the client socket
tcp_recv_call(t) ==
    /\ pc[t] = "tcp_recv_call"
    /\ \/ /\ conn[clt_socket] = "open"
          /\ \E n \in 1..(Need(want[t]) - got[t]) : got' = [got EXCEPT ![t] = @ + n]
          /\ payload_read' = [payload_read EXCEPT ![t] = TRUE]
          /\ Goto(t, "tcp_recv_test")
          /\ UNCHANGED <<stack, tcp_lock, eof_seen>>
       \/ /\ conn[clt_socket] = "peer_closed"
          /\ eof_seen' = [eof_seen EXCEPT ![t] = TRUE]
          /\ Goto(t, "tcp_recv_test")
          /\ UNCHANGED <<stack, tcp_lock, got, payload_read>>
       \/ /\ conn[clt_socket] \in {"reset", "closed"}
          /\ Raise(t, "dead_recv")
          /\ tcp_lock' = Free
          /\ UNCHANGED <<got, payload_read, eof_seen>>
    /\ UNCHANGED <<flags, session, cams, calc, fout_lock, encoder, ui_bt_serve, host, announce, net, sock, cmd, data, want,
                   sent, scene_calls, outcome>>

\* ------------------------------------------------------ the command loop
\* lines 1174-1177: cmd = self._tcp_clt_socket.recv(1), except: break
recv_cmd(t, Ops) ==
    /\ pc[t] = "recv_cmd"
    /\ \/ /\ conn[sock[t]] = "open"
          /\ \E op \in Ops : cmd' = [cmd EXCEPT ![t] = op]
          /\ sent' = [sent EXCEPT ![t] = <<>>]
          /\ scene_calls' = [scene_calls EXCEPT ![t] = <<>>]
          /\ payload_read' = [payload_read EXCEPT ![t] = FALSE]
          /\ eof_seen' = [eof_seen EXCEPT ![t] = FALSE]
          /\ outcome' = [outcome EXCEPT ![t] = "running"]
          /\ Goto(t, "check_cmd")
       \/ /\ conn[sock[t]] = "peer_closed"
          /\ cmd' = [cmd EXCEPT ![t] = EOF]
          /\ Goto(t, "check_cmd")
          /\ UNCHANGED ghost
       \/ /\ conn[sock[t]] \in {"reset", "closed"}
          /\ Goto(t, "disconnect")
          /\ UNCHANGED <<cmd, ghost>>
    /\ UNCHANGED <<flags, session, cams, calc, locks, encoder, ui_bt_serve, host, announce, net, stack, sock, data, want, got>>

\* SET and DO commands that _proccess_command acknowledges before the handler
AckOps ==
    (CMD_SET_PLAYBACK_RANGE..CMD_SET_CAMERA_FLEN_KEYS)
        \cup (CMD_DO_START_STREAMING..CMD_DO_CREATE_NEW_CAMERA)

HandlerOf(op) ==
    CASE op = CMD_SET_CAMERA_MATRIX_AT_TIME -> "_set_camera_transform_at_time"
      [] op = CMD_SET_CAMERA_MATRIX -> "_set_camera_transform"
      [] op = CMD_SET_CAMERA_ALL_AT_TIME -> "_set_camera_all_at_time"
      [] op = CMD_SET_CAMERA_ALL -> "_set_camera_all"
      [] op = CMD_SET_FOCAL_LENGTH_AT_TIME -> "_set_focal_length_at_time"
      [] op = CMD_SET_FOCAL_LENGTH -> "_set_focal_length"
      [] op = CMD_SET_CURRENT_TIME -> "_set_current_time"
      [] op = CMD_ASK_VIEWPORT_IMG -> "ask_viewport_img"
      [] op = CMD_ASK_SCENE_STATUS -> "_send_scene_status"
      [] op = CMD_ASK_CAMERA_MATRIX -> "_send_camera_transform"
      [] op = CMD_ASK_CAMERA_HAS_KEYS -> "_send_camera_has_keys"
      [] op = CMD_ASK_PLAY_FPS -> "_send_play_fps"
      [] op = CMD_DO_SWITCH_PLAYBACK -> "_switch_playback"
      [] op = CMD_DO_START_PLAYBACK -> "_start_playback"
      [] op = CMD_DO_STOP_PLAYBACK -> "_stop_playback"
      [] op = CMD_ASK_SCENE_CAMERAS -> "_send_scene_cameras"
      [] op = CMD_SET_CURRENT_CAMERA -> "_set_current_camera"
      [] op = CMD_SET_PLAYBACK_RANGE -> "_set_playback_range"
      [] op = CMD_DO_REMOVE_CAMERA_KEYS -> "_remove_camera_keys"
      [] op = CMD_DO_CREATE_NEW_CAMERA -> "_create_new_camera"
      [] op = CMD_SET_CAMERA_MATRIX_KEYS -> "_set_camera_matrix_keys"
      [] op = CMD_SET_CAMERA_FLEN_KEYS -> "_set_camera_flen_keys"
      [] op = CMD_DO_START_STREAMING -> "_start_streaming"
      [] op = CMD_DO_STOP_STREAMING -> "do_stop_streaming"
      [] op = CMD_DO_EXECUTE_SCRIPT -> "_execute_script"
      [] op = CMD_ASK_SCRIPT_INFO -> "_send_script_info"
      [] op = CMD_ASK_SERVER_INFO -> "_send_server_info"
      [] OTHER -> "cmd_loop"

KnownOps == {op \in 0..255 : HandlerOf(op) # "cmd_loop"}

\* _proccess_command with an acknowledgment in its final else branch
_proccess_command_ack_else(op) ==
    IF op \in AckOps \/ HandlerOf(op) = "cmd_loop" THEN "ack" ELSE HandlerOf(op)

\* _proccess_command with the acknowledgment of lines 1090-1093 left in
_proccess_command_ack_script(op) ==
    IF op \in AckOps \/ op = CMD_DO_EXECUTE_SCRIPT THEN "ack" ELSE HandlerOf(op)

\* _proccess_command, lines 974-1101: where the dispatch of cmd goes first
_proccess_command(op) ==
    IF op \in AckOps THEN "ack" ELSE HandlerOf(op)

\* lines 1178-1181: if self.is_serving and cmd: self._proccess_command(cmd)
check_cmd(t) ==
    /\ pc[t] = "check_cmd"
    /\ IF is_serving /\ cmd[t] # EOF
       THEN /\ Goto(t, _proccess_command(cmd[t]))
            /\ outcome' = [outcome EXCEPT ![t] =
                              IF _proccess_command(cmd[t]) = "cmd_loop"
                              THEN "ignored" ELSE @]
       ELSE Goto(t, "disconnect") /\ UNCHANGED outcome
    /\ UNCHANGED <<flags, session, cams, calc, locks, encoder, ui_bt_serve, host, announce, net, stack, locals, sent,
                   scene_calls, payload_read, eof_seen>>

\* the self._tcp_send(cmd) that opens the branch of a SET or DO command
ack(t) ==
    /\ pc[t] = "ack"
    /\ TcpSend(t, cmd[t], None, HandlerOf(cmd[t]))
    /\ UNCHANGED <<flags, session, cams, calc, locks, encoder, ui_bt_serve, host, announce, net, locals, scene_calls,
                   payload_read, eof_seen, outcome>>

\* -------------------------------------------------------- handler pieces
\* the self._tcp_recv(len) that opens a handler
RecvPayload(t, entry, len, back) ==
    /\ pc[t] = entry
    /\ CallRecv(t, len, back)
    /\ UNCHANGED <<flags, session, cams, calc, locks, encoder, ui_bt_serve, host, announce, net, sock, cmd, data, got, ghost>>

\* "if not data: return", then self._maya_exec(f, ...) of a host function f
\* that tests cmds.objExists(self.current_camera) before it changes the scene
HostCameraCall(t, at, call) ==
    /\ pc[t] = at
    /\ maya_lock = Free
    /\ IF data[t] = None
       THEN Done(t, "no_data") /\ UNCHANGED scene_calls
       ELSE IF current_camera \in cams
       THEN /\ scene_calls' = [scene_calls EXCEPT ![t] = Append(@, <<call, current_camera>>)]
            /\ Done(t, "ok")
       ELSE /\ Goto(t, "missing_camera")
            /\ UNCHANGED <<scene_calls, outcome>>
    /\ UNCHANGED <<flags, session, cams, calc, locks, encoder, ui_bt_serve, host, announce, net, stack, locals, sent,
                   payload_read, eof_seen>>

\* "if not data: return", then self._maya_exec(f, ...) of a host function f
\* that needs no camera
HostCall(t, at, call, payload) ==
    /\ pc[t] = at
    /\ maya_lock = Free
    /\ IF payload /\ data[t] = None
       THEN Done(t, "no_data") /\ UNCHANGED scene_calls
       ELSE /\ scene_calls' = [scene_calls EXCEPT ![t] = Append(@, <<call, NoCamera>>)]
            /\ Done(t, "ok")
    /\ UNCHANGED <<flags, session, cams, calc, locks, encoder, ui_bt_serve, host, announce, net, stack, locals, sent,
                   payload_read, eof_seen>>

\* a host query that forgets the selected camera when it finds it missing
HostCameraQuery_forgets(t, at) ==
    /\ pc[t] = at
    /\ maya_lock = Free
    /\ Goto(t, IF current_camera \in cams THEN "reply" ELSE "missing_camera")
    /\ current_camera' = IF current_camera \in cams THEN current_camera ELSE NoCamera
    /\ UNCHANGED <<flags, scene_cameras, cams, calc, locks, encoder, ui_bt_serve, host, announce, net, stack, locals, ghost>>

\* self._maya_exec(f) of a host query f of the current camera, then the reply
HostCameraQuery(t, at) ==
    /\ pc[t] = at
    /\ maya_lock = Free
    /\ Goto(t, IF current_camera \in cams THEN "reply" ELSE "missing_camera")
    /\ UNCHANGED <<flags, session, cams, calc, locks, encoder, ui_bt_serve, host, announce, net, stack, locals, ghost>>

\* self._tcp_send that answers an ASK command with its own opcode
reply(t) ==
    /\ pc[t] \in {"reply", "_send_play_fps", "_send_script_info", "_send_server_info"}
    /\ TcpSend(t, cmd[t], None, "cmd_loop")
    /\ outcome' = [outcome EXCEPT ![t] = "ok"]
    /\ UNCHANGED <<flags, session, cams, calc, locks, encoder, ui_bt_serve, host, announce, net, locals, scene_calls,
                   payload_read, eof_seen>>

\* self._tcp_send(self._CMD_ERR_MISSING_CAMERA)
missing_camera(t) ==
    /\ pc[t] = "missing_camera"
    /\ TcpSend(t, CMD_ERR_MISSING_CAMERA, None, "cmd_loop")
    /\ outcome' = [outcome EXCEPT ![t] = "missing_camera"]
    /\ UNCHANGED <<flags, session, cams, calc, locks, encoder, ui_bt_serve, host, announce, net, locals, scene_calls,
                   payload_read, eof_seen>>

\* ------------------------------------------------------------- handlers
\* lines 587-595 and 581-585
_set_camera_transform(t) ==
    \/ RecvPayload(t, "_set_camera_transform", 128, "_transform_current_camera")
    \/ HostCameraCall(t, "_transform_current_camera", "xform")

\* lines 604-612 and 597-602
_set_camera_transform_at_time(t) ==
    \/ RecvPayload(t, "_set_camera_transform_at_time", 136,
                   "_transform_current_camera_at_time")
    \/ HostCameraCall(t, "_transform_current_camera_at_time", "xform_time")

\* lines 918-926 and 911-916
_set_camera_all(t) ==
    \/ RecvPayload(t, "_set_camera_all", 136, "_set_current_camera_all")
    \/ HostCameraCall(t, "_set_current_camera_all", "flen_xform")

\* lines 901-909 and 893-899
_set_camera_all_at_time(t) ==
    \/ RecvPayload(t, "_set_camera_all_at_time", 144, "_set_current_camera_all_at_time")
    \/ HostCameraCall(t, "_set_current_camera_all_at_time", "flen_xform_time")

\* lines 935-943 and 928-933
_set_focal_length_at_time(t) ==
    \/ RecvPayload(t, "_set_focal_length_at_time", 16, "_maya_set_focal_length_at_time")
    \/ HostCameraCall(t, "_maya_set_focal_length_at_time", "flen_time")

\* lines 725-734: the existence test and the setAttr are two host calls
_set_focal_length(t) ==
    \/ RecvPayload(t, "_set_focal_length", 8, "sfl_exists")
    \/ /\ pc[t] = "sfl_exists"
       /\ IF data[t] = None
          THEN Done(t, "no_data")
          ELSE /\ Goto(t, IF current_camera \in cams
                             THEN "_maya_set_focal_length" ELSE "missing_camera")
               /\ UNCHANGED outcome
       /\ UNCHANGED <<flags, session, cams, calc, locks, encoder, ui_bt_serve, host, announce, net, stack, locals, sent,
                      scene_calls, payload_read, eof_seen>>

\* lines 722-723: cmds.setAttr raises when the camera is gone
_maya_set_focal_length(t) ==
    /\ pc[t] = "_maya_set_focal_length"
    /\ IF current_camera \in cams
       THEN /\ scene_calls' = [scene_calls EXCEPT ![t] = Append(@, <<"flen", current_camera>>)]
            /\ Done(t, "ok")
            /\ UNCHANGED stack
       ELSE /\ Raise(t, "dead_host")
            /\ outcome' = [outcome EXCEPT ![t] = "raised"]
            /\ UNCHANGED scene_calls
    /\ UNCHANGED <<flags, session, cams, calc, locks, encoder, ui_bt_serve, host, announce, net, locals, sent,
                   payload_read, eof_seen>>

\* lines 714-720
_set_current_time(t) ==
    \/ RecvPayload(t, "_set_current_time", 8, "_maya_set_current_time")
    \/ HostCall(t, "_maya_set_current_time", "currentTime", TRUE)

\* lines 827-833
_set_playback_range(t) ==
    \/ RecvPayload(t, "_set_playback_range", 16, "_maya_set_playback_range")
    \/ HostCall(t, "_maya_set_playback_range", "playbackOptions", TRUE)

\* lines 744-750
_start_playback(t) ==
    \/ RecvPayload(t, "_start_playback", 1, "_maya_playback")
    \/ HostCall(t, "_maya_playback", "play", TRUE)

\* lines 752-753
_stop_playback(t) == HostCall(t, "_stop_playback", "play", FALSE)

\* lines 755-756
_switch_playback(t) == HostCall(t, "_switch_playback", "play", FALSE)

\* lines 956-959 and 945-954
_remove_camera_keys(t) ==
    /\ pc[t] = "_remove_camera_keys"
    /\ IF current_camera \in cams
       THEN /\ scene_calls' = [scene_calls EXCEPT ![t] = Append(@, <<"delete_keys", current_camera>>)]
            /\ Done(t, "ok")
       ELSE /\ Goto(t, "missing_camera")
            /\ UNCHANGED <<scene_calls, outcome>>
    /\ UNCHANGED <<flags, session, cams, calc, locks, encoder, ui_bt_serve, host, announce, net, stack, locals, sent,
                   payload_read, eof_seen>>

\* lines 767-773 and 758-765
_send_scene_status(t) == HostCameraQuery(t, "_send_scene_status")

\* lines 620-626 and 614-618
_send_camera_transform(t) == HostCameraQuery(t, "_send_camera_transform")

\* lines 804-822 and 790-802
_send_camera_has_keys(t) == HostCameraQuery(t, "_send_camera_has_keys")

\* lines 876-891 and 863-874: count, then count tuples of 136 bytes
_set_camera_matrix_keys(t) ==
    \/ RecvPayload(t, "_set_camera_matrix_keys", 2, "keys_count")
    \/ HostCameraCall(t, "_maya_set_camera_matrix_keys", "matrix_keys")

\* lines 846-861 and 835-844: count, then count tuples of 16 bytes
_set_camera_flen_keys(t) ==
    \/ RecvPayload(t, "_set_camera_flen_keys", 2, "keys_count")
    \/ HostCameraCall(t, "_maya_set_camera_flen_keys", "flen_keys")

\* lines 879-885 (851-855): if not data: return; the read of count tuples
keys_count(t) ==
    /\ pc[t] = "keys_count"
    /\ IF data[t] = None
       THEN /\ Done(t, "no_data")
            /\ UNCHANGED <<stack, want>>
       ELSE /\ CallRecv(t, data[t] * (IF cmd[t] = CMD_SET_CAMERA_MATRIX_KEYS
                                        THEN 136 ELSE 16),
                        IF cmd[t] = CMD_SET_CAMERA_MATRIX_KEYS
                          THEN "_maya_set_camera_matrix_keys"
                          ELSE "_maya_set_camera_flen_keys")
            /\ UNCHANGED outcome
    /\ UNCHANGED <<flags, session, cams, calc, locks, encoder, ui_bt_serve, host, announce, net, sock, cmd, data, got, sent,
                   scene_calls, payload_read, eof_seen>>

\* ---------------------------------------------------------- camera list
CameraOrder == <<"camA", "camB">>

\* cameras.sort() of the perspective cameras, lines 675-681
_get_scene_cameras == SelectSeq(CameraOrder, LAMBDA c : c \in cams)

\* list.index with 1 as the position of the first name
IndexOf_from_one(list, c) ==
    IF \E i \in 1..Len(list) : list[i] = c
    THEN CHOOSE i \in 1..Len(list) : list[i] = c
    ELSE NoCameraIndex

\* lines 685-688: list.index, 65535 when it raises
IndexOf(list, c) ==
    IF \E i \in 1..Len(list) : list[i] = c
    THEN (CHOOSE i \in 1..Len(list) : list[i] = c) - 1
    ELSE NoCameraIndex

\* lines 683-691; the reply carries the index and the names (no name of a
\* host node holds the '$' that joins them)
_send_scene_cameras(t) ==
    \/ /\ pc[t] = "_send_scene_cameras"
       /\ scene_cameras' = _get_scene_cameras
       /\ Goto(t, "ssc_reply")
       /\ UNCHANGED <<flags, current_camera, cams, calc, locks, encoder, ui_bt_serve, host, announce, net, stack, locals,
                      ghost>>
    \/ /\ pc[t] = "ssc_reply"
       /\ TcpSend(t, cmd[t], <<IndexOf(scene_cameras, current_camera), scene_cameras>>, "cmd_loop")
       /\ outcome' = [outcome EXCEPT ![t] = "ok"]
       /\ UNCHANGED <<flags, session, cams, calc, locks, encoder, ui_bt_serve, host, announce, net, locals, scene_calls,
                      payload_read, eof_seen>>

\* self._maya_exec(self._look_through_current_camera), lines 277-278: the host
\* command may refuse a camera that no longer exists
LookThrough(t, next, how) ==
    \/ /\ Goto(t, next) /\ UNCHANGED stack
       /\ outcome' = [outcome EXCEPT ![t] = how]
    \/ /\ is_streaming /\ current_camera \notin cams
       /\ Raise(t, "dead_host")
       /\ outcome' = [outcome EXCEPT ![t] = "raised"]

\* lines 693-706
_set_current_camera(t) ==
    \/ /\ pc[t] = "_set_current_camera"
       /\ IF scene_cameras = NoList
          THEN Raise(t, "dead_attr") /\ outcome' = [outcome EXCEPT ![t] = "raised"] /\ UNCHANGED want
          ELSE IF scene_cameras = <<>>
          THEN Done(t, "no_list") /\ UNCHANGED <<stack, want>>
          ELSE CallRecv(t, 2, "scc_index") /\ UNCHANGED outcome
       /\ UNCHANGED <<flags, session, cams, calc, locks, encoder, ui_bt_serve, host, announce, net, sock, cmd, data, got,
                      sent, scene_calls, payload_read, eof_seen>>
    \/ /\ pc[t] = "scc_index"
       /\ IF data[t] = None
          THEN Done(t, "no_data") /\ UNCHANGED <<stack, current_camera>>
          ELSE IF data[t] >= Len(scene_cameras)
          THEN Raise(t, "dead_index") /\ outcome' = [outcome EXCEPT ![t] = "raised"] /\ UNCHANGED current_camera
          ELSE IF scene_cameras[data[t] + 1] \in cams
          THEN /\ current_camera' = scene_cameras[data[t] + 1]
               /\ Goto(t, "scc_look")
               /\ UNCHANGED <<stack, outcome>>
          ELSE /\ Goto(t, "missing_camera")
               /\ UNCHANGED <<stack, outcome, current_camera>>
       /\ UNCHANGED <<flags, scene_cameras, cams, calc, locks, encoder, ui_bt_serve, host, announce, net, locals, sent,
                      scene_calls, payload_read, eof_seen>>
    \/ /\ pc[t] = "scc_look"
       /\ maya_lock = Free
       /\ LookThrough(t, "cmd_loop", "ok")
       /\ UNCHANGED <<flags, session, cams, calc, locks, encoder, ui_bt_serve, host, announce, net, locals, sent,
                      scene_calls, payload_read, eof_seen>>

\* lines 969-972 and 961-967
_create_new_camera(t) ==
    \/ /\ pc[t] = "_create_new_camera"
       /\ \E c \in Cameras \ cams :
            /\ cams' = cams \cup {c}
            /\ current_camera' = c
            /\ scene_calls' = [scene_calls EXCEPT ![t] = Append(@, <<"camera", c>>)]
       /\ Goto(t, "cnc_look")
       /\ UNCHANGED <<flags, scene_cameras, calc, locks, encoder, ui_bt_serve, host, announce, net, stack, locals, sent,
                      payload_read, eof_seen, outcome>>
    \/ /\ pc[t] = "cnc_look"
       /\ maya_lock = Free
       /\ LookThrough(t, "cmd_loop", "ok")
       /\ UNCHANGED <<flags, session, cams, calc, locks, encoder, ui_bt_serve, host, announce, net, locals, sent,
                      scene_calls, payload_read, eof_seen>>

\* ------------------------------------------------------ custom scripts
ScriptCode(i) == IF i = 0 THEN "" ELSE "code"

\* lines 628-660
_execute_script(t) ==
    \/ RecvPayload(t, "_execute_script", 1, "es_index")
    \/ /\ pc[t] = "es_index"
       /\ IF data[t] = None
          THEN Done(t, "no_data")
          ELSE /\ Goto(t, IF data[t] >= ScriptCount \/ ScriptCode(data[t]) = ""
                             THEN "es_error" ELSE "es_exec")
               /\ UNCHANGED outcome
       /\ UNCHANGED <<flags, session, cams, calc, locks, encoder, ui_bt_serve, host, announce, net, stack, locals, sent,
                      scene_calls, payload_read, eof_seen>>
    \/ /\ pc[t] = "es_exec"
       /\ scene_calls' = [scene_calls EXCEPT ![t] = Append(@, <<"script", NoCamera>>)]
       /\ \E raised \in BOOLEAN : Goto(t, IF raised THEN "es_error" ELSE "es_reply")
       /\ UNCHANGED <<flags, session, cams, calc, locks, encoder, ui_bt_serve, host, announce, net, stack, locals, sent,
                      payload_read, eof_seen, outcome>>
    \/ /\ pc[t] = "es_error"
       /\ TcpSend(t, CMD_ERR_EXECUTE_SCRIPT, data[t], "cmd_loop")
       /\ outcome' = [outcome EXCEPT ![t] = "script_error"]
       /\ UNCHANGED <<flags, session, cams, calc, locks, encoder, ui_bt_serve, host, announce, net, locals, scene_calls,
                      payload_read, eof_seen>>
    \/ /\ pc[t] = "es_reply"
       /\ TcpSend(t, cmd[t], data[t], "cmd_loop")
       /\ outcome' = [outcome EXCEPT ![t] = "ok"]
       /\ UNCHANGED <<flags, session, cams, calc, locks, encoder, ui_bt_serve, host, announce, net, locals, scene_calls,
                      payload_read, eof_seen>>

\* the except clause with the rollback of line 511 left out
st_except_no_rollback(t) ==
    \/ /\ pc[t] = "st_err"                        \* line 510
       /\ TcpSend(t, CMD_ERR_FFMPEG, None, "st_rollback")
       /\ UNCHANGED <<flags, session, cams, calc, locks, encoder, ui_bt_serve, host, announce, net, locals, scene_calls,
                      payload_read, eof_seen, outcome>>
    \/ /\ pc[t] = "st_rollback"                   \* lines 511-512
       /\ Call(t, "deinit_ui", "st_failed")
       /\ UNCHANGED <<is_serving, is_connected, is_streaming, is_autosend, session, cams, calc, locks,
                      encoder, ui_bt_serve, host, announce, net, locals, ghost>>
    \/ /\ pc[t] = "st_failed"                     \* lines 513-514
       /\ maya_lock = Free
       /\ Done(t, "ffmpeg_error")
       /\ UNCHANGED <<flags, session, cams, calc, locks, encoder, ui_bt_serve, host, announce, net, stack,
                      locals, sent, scene_calls, payload_read, eof_seen>>

\* lines 510-514: the except clause of the encoder launch
st_except(t) ==
    \/ /\ pc[t] = "st_err"                        \* line 510
       /\ TcpSend(t, CMD_ERR_FFMPEG, None, "st_rollback")
       /\ UNCHANGED <<flags, session, cams, calc, locks, encoder, ui_bt_serve, host, announce, net, locals, scene_calls,
                      payload_read, eof_seen, outcome>>
    \/ /\ pc[t] = "st_rollback"                   \* lines 511-512
       /\ is_streaming' = FALSE
       /\ Call(t, "deinit_ui", "st_failed")
       /\ UNCHANGED <<is_serving, is_connected, is_autosend, session, cams, calc, locks,
                      encoder, ui_bt_serve, host, announce, net, locals, ghost>>
    \/ /\ pc[t] = "st_failed"                     \* lines 513-514
       /\ maya_lock = Free
       /\ Done(t, "ffmpeg_error")
       /\ UNCHANGED <<flags, session, cams, calc, locks, encoder, ui_bt_serve, host, announce, net, stack,
                      locals, sent, scene_calls, payload_read, eof_seen>>

\* ------------------------------------------------------------ streaming
\* _start_streaming without its "if self.is_streaming: return"
st_check_restart(d) ==
    IF d = None THEN "no_data" ELSE "st_exists"

\* lines 480-484: the two early returns of _start_streaming
st_check(d) ==
    IF d = None THEN "no_data"
    ELSE IF is_streaming THEN "already_streaming"
    ELSE "st_exists"

\* lines 472-518
_start_streaming(t, Modes) ==
    \/ RecvPayload(t, "_start_streaming", 12, "st_check")
    \/ /\ pc[t] = "st_check"                      \* lines 480-484
       /\ IF st_check(data[t]) = "st_exists"
          THEN Goto(t, "st_exists") /\ UNCHANGED outcome
          ELSE Done(t, st_check(data[t]))
       /\ UNCHANGED <<flags, session, cams, calc, locks, encoder, ui_bt_serve, host, announce, net, stack, locals, sent,
                      scene_calls, payload_read, eof_seen>>
    \/ /\ pc[t] = "st_exists"                     \* lines 486-488
       /\ maya_lock = Free
       /\ Goto(t, IF current_camera \in cams THEN "st_set" ELSE "missing_camera")
       /\ UNCHANGED <<flags, session, cams, calc, locks, encoder, ui_bt_serve, host, announce, net, stack, locals, ghost>>
    \/ /\ pc[t] = "st_set"                        \* lines 490-495
       /\ is_streaming' = TRUE
       /\ is_autosend' = (data[t] = 1)
       /\ \E capture_mode \in Modes :
            is_streaming_screenshot' = (capture_mode = CAPMODE_SCREENSHOT)
       /\ Goto(t, "st_ui")
       /\ UNCHANGED <<is_serving, is_connected, session, cams, calc, locks, encoder, ui_bt_serve, announce,
                      maya_lock, ui_view, capture, net, stack, locals, ghost>>
    \/ /\ pc[t] = "st_ui"                         \* lines 496, 378
       /\ maya_lock = Free
       /\ maya_lock' = t
       /\ Goto(t, "st_ui_host")
       /\ UNCHANGED <<flags, session, cams, calc, locks, encoder, ui_bt_serve, announce, ui_view,
                      is_streaming_screenshot, capture, net, stack, locals, ghost>>
    \/ /\ pc[t] = "st_ui_host"                    \* lines 280-293: _start_streaming_ui
       /\ ui_view' = "panel"
       /\ view_size' = StreamSize                 \* line 287
       /\ maya_lock' = Free
       /\ LookThrough(t, "st_popen", outcome[t])
       /\ UNCHANGED <<flags, session, cams, calc, locks, encoder, ui_bt_serve, announce,
                      is_streaming_screenshot, real_stream_size, net, locals, sent,
                      scene_calls, payload_read, eof_seen>>
    \/ /\ pc[t] = "st_popen"                      \* lines 497-509
       /\ maya_lock = Free
       /\ real_stream_size' = view_size           \* lines 497, 455-456
       /\ \E launched \in BOOLEAN :
            IF launched
            THEN proc' = "running" /\ Goto(t, "st_fout")
            ELSE UNCHANGED proc /\ Goto(t, "st_err")
       /\ UNCHANGED <<flags, session, cams, calc, locks, fout, ui_bt_serve, maya_lock, ui_view,
                      is_streaming_screenshot, view_size, announce, net, stack, locals,
                      ghost>>
    \/ st_except(t)
    \/ /\ pc[t] = "st_fout"                       \* line 515
       /\ fout' = "open"
       /\ Goto(t, "st_autosend")
       /\ UNCHANGED <<flags, session, cams, calc, locks, proc, ui_bt_serve, host, announce, net, stack, locals, ghost>>
    \/ /\ pc[t] = "st_autosend"                   \* lines 517-518, 450-452
       /\ IF is_autosend
          THEN LET a == FreeThread(AutosendNames, MaxAutosend) IN
                 /\ a # Unset
                 /\ pc' = [pc EXCEPT ![t] = "cmd_loop", ![a] = "_autosend_loop"]
          ELSE Goto(t, "cmd_loop")
       /\ outcome' = [outcome EXCEPT ![t] = "streaming"]
       /\ UNCHANGED <<flags, session, cams, calc, locks, encoder, ui_bt_serve, host, announce, net, stack, locals, sent,
                      scene_calls, payload_read, eof_seen>>

\* the DO_STOP_STREAMING branch, lines 1085-1088
do_stop_streaming(t) ==
    /\ pc[t] = "do_stop_streaming"
    /\ Call(t, "stop_streaming", "cmd_loop")
    /\ outcome' = [outcome EXCEPT ![t] = "stop_streaming"]
    /\ UNCHANGED <<flags, session, cams, calc, locks, encoder, ui_bt_serve, host, announce, net, locals, sent,
                   scene_calls, payload_read, eof_seen>>

\* the ASK_VIEWPORT_IMG branch, lines 1011-1013
ask_viewport_img(t) ==
    /\ pc[t] = "ask_viewport_img"
    /\ Call(t, "_send_viewport_img", "cmd_loop")
    /\ outcome' = [outcome EXCEPT ![t] = "viewport_img"]
    /\ UNCHANGED <<flags, session, cams, calc, locks, encoder, ui_bt_serve, host, announce, net, locals, sent,
                   scene_calls, payload_read, eof_seen>>

\* lines 530-536, run on the host thread by _maya_exec (line 555)
_capture_viewport_buffer(t) ==
    /\ pc[t] = "svi_buffer"                    \* lines 555, 530-536: in _maya_exec
    /\ maya_lock' = Free
    /\ Goto(t, "svi_write")
    /\ UNCHANGED <<flags, session, cams, calc, locks, encoder, ui_bt_serve, announce, ui_view,
                   is_streaming_screenshot, capture, net, stack, locals, ghost>>

\* lines 538-544, run by the calling thread itself (line 553)
_capture_viewport_screenshot(t) ==
    /\ pc[t] = "svi_screenshot"                \* lines 553, 538-544: in the caller
    /\ Goto(t, "svi_write")
    /\ UNCHANGED <<flags, session, cams, calc, locks, encoder, ui_bt_serve, host, announce, net, stack,
                   locals, ghost>>

\* lines 546-563, run by the command loop and by the autosend loop
_send_viewport_img(t) ==
    \/ /\ pc[t] = "_send_viewport_img"            \* line 547
       /\ Goto(t, IF is_streaming THEN "svi_capture" ELSE "svi_not_streaming")
       /\ UNCHANGED <<flags, session, cams, calc, locks, encoder, ui_bt_serve, host, announce, net, stack, locals, ghost>>
    \/ /\ pc[t] = "svi_not_streaming"             \* lines 548-550
       /\ IF is_autosend
          THEN Return(t) /\ UNCHANGED sent
          ELSE TcpSend(t, CMD_ERR_NOT_STREAMING, None, "return")
       /\ UNCHANGED <<flags, session, cams, calc, locks, encoder, ui_bt_serve, host, announce, net, locals, scene_calls,
                      payload_read, eof_seen, outcome>>
    \/ /\ pc[t] = "svi_capture"                   \* lines 552-555
       /\ IF is_streaming_screenshot
          THEN Goto(t, "svi_screenshot") /\ UNCHANGED maya_lock
          ELSE maya_lock = Free /\ maya_lock' = t /\ Goto(t, "svi_buffer")
       /\ UNCHANGED <<flags, session, cams, calc, locks, encoder, ui_bt_serve, announce, ui_view,
                      is_streaming_screenshot, capture, net, stack, locals, ghost>>
    \/ /\ pc[t] = "svi_write"                     \* lines 557-558: with self._fout_lock
       /\ fout_lock = Free
       /\ fout_lock' = t
       /\ Goto(t, "svi_writing")
       /\ UNCHANGED <<flags, session, cams, calc, tcp_lock, encoder, ui_bt_serve, host, announce, net, stack,
                      locals, ghost>>
    \/ /\ pc[t] = "svi_writing"                   \* lines 559-560: self._fout.write
       /\ fout_lock' = Free
       /\ IF fout = "open" /\ proc = "running"
          THEN Return(t)
          ELSE Goto(t, "svi_except") /\ UNCHANGED stack
       /\ UNCHANGED <<flags, session, cams, calc, tcp_lock, encoder, ui_bt_serve, host, announce, net, locals,
                      ghost>>
    \/ /\ pc[t] = "svi_except"                    \* line 561
       /\ Call(t, "stop_streaming", "svi_error")
       /\ UNCHANGED <<flags, session, cams, calc, locks, encoder, ui_bt_serve, host, announce, net, locals, ghost>>
    \/ /\ pc[t] = "svi_error"                     \* lines 562-563
       /\ TcpSend(t, CMD_ERR_NOT_STREAMING, None, "return")
       /\ UNCHANGED <<flags, session, cams, calc, locks, encoder, ui_bt_serve, host, announce, net, locals, scene_calls,
                      payload_read, eof_seen, outcome>>

\* lines 437-448
_autosend_loop(a) ==
    \/ /\ pc[a] = "_autosend_loop"                \* line 440
       /\ IF is_streaming
          THEN Call(a, "_send_viewport_img", "autosend_sleep")
          ELSE Goto(a, "idle") /\ UNCHANGED stack
       /\ UNCHANGED <<flags, session, cams, calc, locks, encoder, ui_bt_serve, host, announce, net, locals, ghost>>
    \/ /\ pc[a] = "autosend_sleep"                \* lines 442-448
       /\ Goto(a, "_autosend_loop")
       /\ UNCHANGED <<flags, session, cams, calc, locks, encoder, ui_bt_serve, host, announce, net, stack, locals, ghost>>

\* lines 667-669: the configuration window was saved; the labels are sent by a
\* new thread
_after_save_callback ==
    /\ pc[CallbackThread] \in Stopped
    /\ \A h \in ListenerThreads : Len(sent[h]) < MaxSent
    /\ Goto(CallbackThread, "_send_script_info")
    /\ UNCHANGED <<flags, session, cams, calc, locks, encoder, ui_bt_serve, host, announce, net, stack,
                   locals, ghost>>

\* lines 662-665 and 357-360 on the callback's thread: the with-block of
\* _tcp_send is entered in one step and the reply is sent in the next
_send_script_info(c) ==
    \/ /\ pc[c] = "_send_script_info"            \* line 358
       /\ tcp_lock = Free
       /\ tcp_lock' = c
       /\ Goto(c, "tcp_sending")
       /\ UNCHANGED <<flags, session, cams, calc, fout_lock, encoder, ui_bt_serve, host, announce, net,
                      stack, locals, ghost>>
    \/ /\ pc[c] = "tcp_sending"                  \* lines 359-360
       /\ SocketSend(c, CMD_ASK_SCRIPT_INFO, None, "idle")
       /\ tcp_lock' = Free
       /\ UNCHANGED <<flags, session, cams, calc, fout_lock, encoder, ui_bt_serve, host, announce, net,
                      locals, scene_calls, payload_read, eof_seen, outcome>>

\* the host lays the streaming view out at another size: the size the control
\* really has is what lines 455-456 ask the host for
HostResize ==
    /\ ui_view = "panel"
    /\ \E size \in PanelSizes \ {view_size} : view_size' = size
    /\ UNCHANGED <<flags, session, cams, calc, locks, encoder, ui_bt_serve, maya_lock, ui_view,
                   is_streaming_screenshot, real_stream_size, announce, net, ctl, locals,
                   ghost>>

\* the encoder process dies on its own (crash, or its output stream breaks)
EncoderExit ==
    /\ proc = "running"
    /\ proc' = "exited"
    /\ UNCHANGED <<flags, session, cams, calc, locks, fout, ui_bt_serve, host, announce, net, ctl, locals, ghost>>

\* ------------------------------------------------------ specifications
\* The whole server is one state machine; each specification below runs it
\* with the threads and the client opcodes of one concern, so that every
\* interleaving of that concern is explored.
ListenerLoop(t, Ops) ==
    \/ while_serving(t, 0) \/ accept_call(t) \/ accept_return(t) \/ accepted(t)
    \/ cmd_loop(t) \/ recv_cmd(t, Ops) \/ check_cmd(t) \/ ack(t)
    \/ disconnect(t) \/ disc_streaming(t) \/ disc_ui(t) \/ close(t)
    \/ tcp_recv(t) \/ tcp_recv_test(t) \/ tcp_recv_call(t)
    \/ missing_camera(t)

TeardownStep(t) ==
    \/ stop_streaming(t) \/ ss_clear(t) \/ ss_close(t) \/ ss_wait(t) \/ ss_autosend(t)
    \/ _deinit_streaming_ui(t)

_stop ==
    \/ stop_click \/ stop_lock \/ stop_if_streaming \/ stop_if_connected \/ stop_close

Client ==
    \E k \in ClientConns : ClientConnect(k) \/ ClientClose(k) \/ ClientReset(k)

\* Server lifecycle: serve, stop, serve again, with the commands of LifeOps.
LifeOps == {CMD_SET_CAMERA_MATRIX, CMD_DO_EXECUTE_SCRIPT, 8}

Next ==
    \/ _serve
    \/ _stop
    \/ \E t \in ListenerThreads :
         \/ ListenerLoop(t, LifeOps) \/ stopped(t)
         \/ _set_camera_transform(t) \/ _execute_script(t)
    \/ Client

Spec == Init /\ [][Next]_vars

\* One serving lifetime, every command that needs no encoder.
CameraOps == (KnownOps \cup UnknownOps)
                 \ {CMD_DO_START_STREAMING, CMD_DO_STOP_STREAMING, CMD_ASK_VIEWPORT_IMG}

NextCamera ==
    \/ _serve
    \/ \E t \in ListenerThreads :
         \/ ListenerLoop(t, CameraOps) \/ reply(t)
         \/ _set_camera_transform(t) \/ _set_camera_transform_at_time(t)
         \/ _set_camera_all(t) \/ _set_camera_all_at_time(t)
         \/ _set_focal_length_at_time(t) \/ _set_focal_length(t)
         \/ _maya_set_focal_length(t)
         \/ _set_current_time(t) \/ _set_playback_range(t)
         \/ _start_playback(t) \/ _stop_playback(t) \/ _switch_playback(t)
         \/ _remove_camera_keys(t) \/ _create_new_camera(t)
         \/ _send_scene_status(t) \/ _send_camera_transform(t)
         \/ _send_camera_has_keys(t)
         \/ _set_camera_matrix_keys(t) \/ _set_camera_flen_keys(t) \/ keys_count(t)
         \/ _send_scene_cameras(t) \/ _set_current_camera(t)
         \/ _execute_script(t)
    \/ Client
    \/ \E c \in Cameras : HostDeleteCamera(c)

SpecCamera == Init /\ [][NextCamera]_vars

\* One serving lifetime, the streaming pipeline and its threads.
StreamOps == {CMD_DO_CREATE_NEW_CAMERA, CMD_DO_START_STREAMING, CMD_DO_STOP_STREAMING,
              CMD_ASK_VIEWPORT_IMG, CMD_SET_CAMERA_MATRIX, 8}

NextStream ==
    \/ _serve
    \/ \E t \in ListenerThreads :
         \/ ListenerLoop(t, StreamOps)
         \/ _create_new_camera(t) \/ _set_camera_transform(t)
         \/ _start_streaming(t, {DEFAULT_CAPMODE})
         \/ do_stop_streaming(t) \/ ask_viewport_img(t)
    \/ \E t \in ListenerThreads \cup AutosendThreads :
         TeardownStep(t) \/ _send_viewport_img(t) \/ _capture_viewport_buffer(t)
    \/ \E a \in AutosendThreads : _autosend_loop(a)
    \/ Client
    \/ \E c \in Cameras : HostDeleteCamera(c)
    \/ EncoderExit

SpecStream == Init /\ [][NextStream]_vars

\* One serving lifetime of a client that asks: every ASK opcode, two opcodes
\* of the ASK range that no handler knows, and the two DO commands that
\* select a camera and start the stream the frames are asked of.
AskOps == (CMD_ASK_SERVER_INFO..8) \cup {49}
             \cup {CMD_DO_CREATE_NEW_CAMERA, CMD_DO_START_STREAMING}

NextAsk ==
    \/ _serve
    \/ \E t \in ListenerThreads :
         \/ ListenerLoop(t, AskOps) \/ reply(t)
         \/ _send_scene_status(t) \/ _send_camera_transform(t)
         \/ _send_camera_has_keys(t) \/ _send_scene_cameras(t)
         \/ _create_new_camera(t)
         \/ _start_streaming(t, {DEFAULT_CAPMODE})
         \/ ask_viewport_img(t)
         \/ TeardownStep(t) \/ _send_viewport_img(t) \/ _capture_viewport_buffer(t)
    \/ Client
    \/ \E c \in Cameras : HostDeleteCamera(c)
    \/ EncoderExit

SpecAsk == Init /\ [][NextAsk]_vars

\* One serving lifetime, the listener and its announcement threads; the
\* client sends opcodes that no handler knows.
AnnounceOps == {8}

NextAnnounce ==
    \/ _serve
    \/ \E t \in ListenerThreads :
         \/ while_serving(t, MaxAnnounce) \/ accept_call(t) \/ accept_return(t)
         \/ accepted(t) \/ cmd_loop(t) \/ recv_cmd(t, AnnounceOps) \/ check_cmd(t)
         \/ disconnect(t) \/ disc_streaming(t) \/ disc_ui(t) \/ close(t)
    \/ \E a \in AnnounceThreads : _handle_server_announcement(a)
    \/ Client

SpecAnnounce == Init /\ [][NextAnnounce]_vars

\* One serving lifetime that is stopped: the server is bound once, then the
\* stop routine, the listener and the client run in every order. The threads
\* are scheduled fairly: a thread that can take a step takes it.
OnceOps == {CMD_SET_CAMERA_MATRIX, 8}

ListenerStep(t) ==
    ListenerLoop(t, OnceOps) \/ stopped(t) \/ _set_camera_transform(t)

StopStep == stop_lock \/ stop_if_streaming \/ stop_if_connected \/ stop_close

NextOnce ==
    \/ srv_socket = Unset /\ _serve
    \/ _stop
    \/ \E t \in ListenerThreads : ListenerStep(t)
    \/ Client

SpecOnce ==
    /\ Init /\ [][NextOnce]_vars
    /\ \A t \in ListenerThreads : WF_vars(ListenerStep(t))
    /\ WF_vars(StopStep)

\* One serving lifetime, the streaming pipeline in both capture modes.
CaptureOps == {CMD_DO_CREATE_NEW_CAMERA, CMD_DO_START_STREAMING, CMD_DO_STOP_STREAMING,
               CMD_ASK_VIEWPORT_IMG}

NextCapture ==
    \/ srv_socket = Unset /\ _serve
    \/ \E t \in ListenerThreads :
         \/ ListenerLoop(t, CaptureOps)
         \/ _create_new_camera(t)
         \/ _start_streaming(t, CaptureModes)
         \/ do_stop_streaming(t) \/ ask_viewport_img(t)
    \/ \E t \in ListenerThreads \cup AutosendThreads :
         \/ TeardownStep(t) \/ _send_viewport_img(t)
         \/ _capture_viewport_buffer(t) \/ _capture_viewport_screenshot(t)
    \/ \E a \in AutosendThreads : _autosend_loop(a)
    \/ Client
    \/ EncoderExit

SpecCapture == Init /\ [][NextCapture]_vars

\* The same lifetime while the host may resize the streaming view.
NextFrame == NextCapture \/ HostResize

SpecFrame == Init /\ [][NextFrame]_vars

\* One serving lifetime that may be stopped while it streams in autosend
\* mode: every thread that calls the host executor.
HostOps == {CMD_DO_CREATE_NEW_CAMERA, CMD_DO_START_STREAMING}

NextHost ==
    \/ srv_socket = Unset /\ _serve
    \/ _stop
    \/ \E t \in ListenerThreads :
         \/ ListenerLoop(t, HostOps) \/ stopped(t)
         \/ _create_new_camera(t)
         \/ _start_streaming(t, CaptureModes)
    \/ \E t \in Threads \ AnnounceThreads :
         \/ TeardownStep(t) \/ _send_viewport_img(t)
         \/ _capture_viewport_buffer(t) \/ _capture_viewport_screenshot(t)
    \/ \E a \in AutosendThreads : _autosend_loop(a)
    \/ \E k \in ClientConns : ClientConnect(k)
    \/ EncoderExit

SpecHost == Init /\ [][NextHost]_vars

\* One serving lifetime with every thread that uses the client socket: the
\* command loop, the autosend loop, the thread of the configuration callback
\* and the stop routine.
SocketOps == {CMD_DO_CREATE_NEW_CAMERA, CMD_DO_START_STREAMING, CMD_DO_STOP_STREAMING}

NextSocket ==
    \/ srv_socket = Unset /\ _serve
    \/ _stop
    \/ \E t \in ListenerThreads :
         \/ ListenerLoop(t, SocketOps) \/ stopped(t)
         \/ _create_new_camera(t)
         \/ _start_streaming(t, {DEFAULT_CAPMODE}) \/ do_stop_streaming(t)
    \/ \E t \in ListenerThreads \cup AutosendThreads \cup {StopThread} :
         TeardownStep(t) \/ _send_viewport_img(t) \/ _capture_viewport_buffer(t)
    \/ \E a \in AutosendThreads : _autosend_loop(a)
    \/ _after_save_callback
    \/ _send_script_info(CallbackThread)
    \/ \E k \in ClientConns : ClientConnect(k)

SpecSocket == Init /\ [][NextSocket]_vars

\* ------------------------------------------------- functions of the adapter
\* line 122
_CAMERA_KEY_ATTRS == <<".focalLength", ".tx", ".ty", ".tz", ".rx", ".ry", ".rz">>

KeyAttrs == {_CAMERA_KEY_ATTRS[i] : i \in 1..Len(_CAMERA_KEY_ATTRS)}

\* lines 795-801: the loop over the attributes from the i-th on; keyed is the
\* set of attributes that have an incoming connection
RECURSIVE ScanKeyAttrs(_, _, _, _)
ScanKeyAttrs(keyed, i, tr_has_keys, flen_has_keys) ==
    IF i > Len(_CAMERA_KEY_ATTRS) THEN <<tr_has_keys, flen_has_keys>>
    ELSE IF _CAMERA_KEY_ATTRS[i] \notin keyed
    THEN ScanKeyAttrs(keyed, i + 1, tr_has_keys, flen_has_keys)
    ELSE IF _CAMERA_KEY_ATTRS[i] = ".focalLength"
    THEN ScanKeyAttrs(keyed, i + 1, tr_has_keys, TRUE)
    ELSE <<TRUE, flen_has_keys>>                  \* break

\* lines 790-802, for a camera that exists
_get_camera_has_keys(keyed) == ScanKeyAttrs(keyed, 1, FALSE, FALSE)

\* src/virtuCameraMaya/virtuCameraMaya.py:659-672, the older reply:
\* struct.pack('<?', cam_has_keys)
_get_camera_has_keys_bool(keyed) == IF keyed # {} THEN 1 ELSE 0

\* the byte with the single boolean of the older reply
cam_has_keys_bool(tr_has_keys, flen_has_keys) ==
    IF tr_has_keys \/ flen_has_keys THEN 1 ELSE 0

\* lines 811-817: 0b111, 0b011, 0b101 or 0
cam_has_keys(tr_has_keys, flen_has_keys) ==
    IF tr_has_keys /\ flen_has_keys THEN 7
    ELSE IF tr_has_keys THEN 3
    ELSE IF flen_has_keys THEN 5
    ELSE 0

\* lines 804-820: the byte of the reply to ASK_CAMERA_HAS_KEYS for a camera
\* whose keyed attributes are keyed
PackCameraHasKeys ==
    /\ \E keyed \in SUBSET KeyAttrs :
         LET has_keys == _get_camera_has_keys(keyed) IN
           /\ input' = <<"_send_camera_has_keys", keyed>>
           /\ output' = cam_has_keys(has_keys[1], has_keys[2])
    /\ UNCHANGED <<flags, session, cams, locks, encoder, ui_bt_serve, host, announce, net, ctl,
                   locals, ghost>>

SpecKeys == Init /\ [][PackCameraHasKeys]_vars

\* line 117: _ALPHA_BITRATE_RATIO = 0.2, as tenths
AlphaRatioTenths == 2

\* '%.3fM' % x for x = num / (10 * 1000) Mbit/s: the nearest whole number of
\* kbit/s (thousandths of a Mbit/s), num being x in tenths of a kbit/s
Format3(num) == (num + 5) \div 10

\* _get_ffmpeg_cmd with the two ratios exchanged
_get_ffmpeg_cmd_swapped(bitrate, opaque, vflip) ==
    IF opaque
    THEN (IF vflip THEN << <<"-vf", "vflip">> >> ELSE <<>>)
           \o << <<"-b:v", Format3(bitrate * 10)>> >>
    ELSE LET bitrate_rgb == bitrate * AlphaRatioTenths
             bitrate_alpha == bitrate * (10 - AlphaRatioTenths)
         IN << <<"-filter_complex", IF vflip THEN "vflip,split" ELSE "split">>,
               <<"-map", "[rgbout]">>, <<"-map", "[alphaout]">>,
               <<"-b:v:0", Format3(bitrate_rgb)>>,
               <<"-b:v:1", Format3(bitrate_alpha)>> >>

\* lines 388-435: the options of the encoder that depend on opaque, vflip and
\* bitrate; bitrate is in kbit/s, the products are in tenths of a kbit/s
_get_ffmpeg_cmd(bitrate, opaque, vflip) ==
    IF opaque
    THEN (IF vflip THEN << <<"-vf", "vflip">> >> ELSE <<>>)
           \o << <<"-b:v", Format3(bitrate * 10)>> >>
    ELSE LET bitrate_rgb == bitrate * (10 - AlphaRatioTenths)
             bitrate_alpha == bitrate * AlphaRatioTenths
         IN << <<"-filter_complex", IF vflip THEN "vflip,split" ELSE "split">>,
               <<"-map", "[rgbout]">>, <<"-map", "[alphaout]">>,
               <<"-b:v:0", Format3(bitrate_rgb)>>,
               <<"-b:v:1", Format3(bitrate_alpha)>> >>

\* line 500: the command line of the encoder is built from the payload of
\* DO_START_STREAMING
BuildFfmpegCmd ==
    /\ input[1] = "_get_ffmpeg_cmd"
    /\ output = Unset
    /\ output' = _get_ffmpeg_cmd(input[2], input[3], input[4])
    /\ UNCHANGED <<flags, session, cams, input, locks, encoder, ui_bt_serve, host, announce, net,
                   ctl, locals, ghost>>

\* bitrate, opaque and vflip (line 499) are any of the bounded ones
InitFfmpegCmd ==
    /\ InitServer
    /\ input \in {<<"_get_ffmpeg_cmd", bitrate, opaque, vflip>> :
                     bitrate \in 0..MaxBitrate, opaque \in BOOLEAN, vflip \in BOOLEAN}
    /\ output = Unset

SpecFfmpegCmd == InitFfmpegCmd /\ [][BuildFfmpegCmd]_vars

\* ------------------------------------------------ _autosend_loop, its clock
\* lines 437-448 with timeit.default_timer() in whole ticks. output holds the
\* locals of the loop after an iteration (sleep_until, prev_time), the clock
\* when the iteration ended, and what the iteration saw: now, the deadline
\* and the prev_time it began with, and whether it slept.
\* the test of line 443 without its "now > prev_time"
SleepBranch_deadline_only(sleep_until, now, prev_time) == sleep_until > now

\* line 443: if sleep_until > now and now > prev_time
SleepBranch(sleep_until, now, prev_time) == sleep_until > now /\ now > prev_time

\* lines 441-448: one iteration; the frame of line 441 takes d ticks, and
\* time.sleep (line 444) ends at the deadline
AutosendIteration ==
    /\ input[1] = "_autosend_loop"
    /\ output.clock <= MaxTime
    /\ \E d \in 0..MaxDelay :
         LET autosend_interval == input[2]
             now == output.clock + d                              \* line 442
             sleeps == SleepBranch(output.sleep_until, now, output.prev_time)
         IN output' = [sleep_until |-> IF sleeps
                                       THEN output.sleep_until + autosend_interval
                                       ELSE now + autosend_interval,
                       prev_time |-> now,                          \* line 448
                       clock |-> IF sleeps THEN output.sleep_until ELSE now,
                       now |-> now,
                       deadline |-> output.sleep_until,
                       before |-> output.prev_time,
                       slept |-> IF sleeps THEN "slept" ELSE "reset"]
    /\ UNCHANGED <<flags, session, cams, input, locks, encoder, ui_bt_serve, host, announce, net,
                   ctl, locals, ghost>>

\* lines 438-439 and 450-452: the loop is started at any tick with any interval
InitAutosend ==
    /\ InitServer
    /\ input \in {<<"_autosend_loop", autosend_interval, start>> :
                     autosend_interval \in 1..MaxInterval, start \in 0..MaxDelay}
    /\ output = [sleep_until |-> input[3] + input[2], prev_time |-> 0,
                 clock |-> input[3], now |-> input[3], deadline |-> input[3] + input[2],
                 before |-> 0, slept |-> Unset]

SpecAutosend == InitAutosend /\ [][AutosendIteration]_vars

\* api.MMatrix: 16 numbers, row after row
At(m, i, j) == m[4 * (i - 1) + j]

\* MMatrix.__imul__: the matrix product a * b
MatMul(a, b) ==
    [n \in 1..16 |->
        LET i == ((n - 1) \div 4) + 1
            j == ((n - 1) % 4) + 1
        IN At(a, i, 1) * At(b, 1, j) + At(a, i, 2) * At(b, 2, j)
             + At(a, i, 3) * At(b, 3, j) + At(a, i, 4) * At(b, 4, j)]

\* line 567
RotToMaya == <<1, 0, 0, 0,  0, 0, 1, 0,  0, -1, 0, 0,  0, 0, 0, 1>>

\* line 575
RotToVc == <<1, 0, 0, 0,  0, 0, -1, 0,  0, 1, 0, 0,  0, 0, 0, 1>>

\* lines 565-571
_vc_to_maya_up_axis(is_z_up, tr_matrix) ==
    IF is_z_up THEN MatMul(tr_matrix, RotToMaya) ELSE tr_matrix

\* _maya_to_vc_up_axis with the rotation of _vc_to_maya_up_axis
_maya_to_vc_up_axis_same_rot(is_z_up, tr_matrix) ==
    IF is_z_up THEN MatMul(tr_matrix, RotToMaya) ELSE tr_matrix

\* lines 573-579
_maya_to_vc_up_axis(is_z_up, tr_matrix) ==
    IF is_z_up THEN MatMul(tr_matrix, RotToVc) ELSE tr_matrix

Entries == (0 - MaxEntry)..MaxEntry

Rows == [1..4 -> Entries]

\* matrices with two independent rows: the rows are a, b, b, a
Matrices == {a \o b \o b \o a : a \in Rows, b \in Rows}

\* a matrix of the protocol is taken to the host and back (lines 583, 617),
\* and a matrix of the host to the protocol and back; self._is_z_up is set
\* once from the scene (line 350)
ConvertUpAxis ==
    /\ input[1] = "up_axis"
    /\ output = Unset
    /\ LET is_z_up == input[2]
           m == input[3]
       IN output' = <<_vc_to_maya_up_axis(is_z_up, m),
                      _maya_to_vc_up_axis(is_z_up, _vc_to_maya_up_axis(is_z_up, m)),
                      _vc_to_maya_up_axis(is_z_up, _maya_to_vc_up_axis(is_z_up, m))>>
    /\ UNCHANGED <<flags, session, cams, input, locks, encoder, ui_bt_serve, host, announce, net,
                   ctl, locals, ghost>>

\* the matrix and the up axis of the scene are any of the bounded ones
InitUpAxis ==
    /\ InitServer
    /\ input \in {<<"up_axis", is_z_up, m>> : is_z_up \in BOOLEAN, m \in Matrices}
    /\ output = Unset

SpecUpAxis == InitUpAxis /\ [][ConvertUpAxis]_vars

\* ------------------------------------------------- batches of keyframes
\* xrange(0, stop, step) as the sequence of its values
xrange(stop, step) == [i \in 1..((stop + step - 1) \div step) |-> (i - 1) * step]

\* lines 835-844 with the camera present, the keys applied in order as
\* <<flen of setAttr, t of setKeyframe>>, with flen and frame_num exchanged
_maya_set_camera_flen_keys_swapped(keys) ==
    LET starts == xrange(Len(keys), 2)
    IN [i \in 1..Len(starts) |->
           LET start == starts[i]
               end == start + 1
               flen == keys[end + 1]
               frame_num == keys[start + 1]
           IN <<flen, frame_num>>]

\* lines 835-844 with the camera present: the keys applied in order, each as
\* <<flen of setAttr, t of setKeyframe>> (keys[k] of the code is keys[k + 1])
_maya_set_camera_flen_keys(keys) ==
    LET starts == xrange(Len(keys), 2)
    IN [i \in 1..Len(starts) |->
           LET start == starts[i]
               end == start + 1
               flen == keys[start + 1]
               frame_num == keys[end + 1]
           IN <<flen, frame_num>>]

\* lines 863-874 with the camera present: the keys applied in order, each as
\* <<matrix of xform, t of setKeyframe>>; filterCurve adds and removes no key
_maya_set_camera_matrix_keys(is_z_up, keys) ==
    LET starts == xrange(Len(keys), 17)
    IN [i \in 1..Len(starts) |->
           LET start == starts[i]
               end == start + 16
               tr_matrix == SubSeq(keys, start + 1, end)
               frame_num == keys[end + 1]
           IN <<_vc_to_maya_up_axis(is_z_up, tr_matrix), frame_num>>]

\* the doubles of a batch on the wire (line 880, line 850): value, frame,
\* value, frame, ...
RECURSIVE KeyPayload(_)
KeyPayload(tuples) ==
    IF tuples = <<>> THEN <<>>
    ELSE Head(tuples)[1] \o <<Head(tuples)[2]>> \o KeyPayload(Tail(tuples))

\* lines 846-861 and 876-891 on an open connection: the count is read, then
\* count * 16 (136) bytes; an empty read returns; the host call; the reply.
\* The outcome is <<keys set, reply sent, whether the host was called>>.
SetCameraKeys ==
    /\ input[1] = "keys"
    /\ output = Unset
    /\ LET is_matrix == input[2]
           is_z_up == input[3]
           camera_exists == input[4]
           key_count == Len(input[5])
           data_len == key_count * (IF is_matrix THEN 136 ELSE 16)
           keys == KeyPayload(input[5])
       IN output' =
            IF data_len = 0
            THEN <<<<>>, None, FALSE>>
            ELSE IF camera_exists
            THEN <<IF is_matrix
                   THEN _maya_set_camera_matrix_keys(is_z_up, keys)
                   ELSE _maya_set_camera_flen_keys(keys), None, TRUE>>
            ELSE <<<<>>, CMD_ERR_MISSING_CAMERA, TRUE>>
    /\ UNCHANGED <<flags, session, cams, input, locks, encoder, ui_bt_serve, host, announce, net,
                   ctl, locals, ghost>>

KeyFrames == 1..MaxKeyFrame

\* two focal lengths
KeyFlens == {<<35>>, <<50>>}

\* two matrices no two entries of which are equal
KeyMatrices == {[n \in 1..16 |-> n + 10], [n \in 1..16 |-> 40 - n]}

\* the batches of up to MaxBatch tuples of values v
KeyBatches(v) == UNION {[1..n -> v \X KeyFrames] : n \in 0..MaxBatch}

\* a batch of either kind arrives with the selected camera present or not
InitKeys ==
    /\ InitServer
    /\ input \in {<<"keys", FALSE, FALSE, e, b>> : e \in BOOLEAN, b \in KeyBatches(KeyFlens)}
          \cup {<<"keys", TRUE, z, e, b>> : z \in BOOLEAN, e \in BOOLEAN,
                                             b \in KeyBatches(KeyMatrices)}
    /\ output = Unset

SpecKeyBatch == InitKeys /\ [][SetCameraKeys]_vars

\* ---------------------------------------------------------------- claims
\* what listener t itself has sent since it read the current opcode
OwnSent(t) == SelectSeq(sent[t], LAMBDA e : e[1] = t)

\* positions of _handle_tcp_socket outside its per-connection command loop
OutsideLoop == {"while_serving", "accept", "accept_wait", "accepted", "connected", "disconnect",
                "disc_streaming", "disc_ui", "close", "stopped"}

\* listener t is in its command loop on a client's connection: it reads and
\* dispatches that client's opcodes
InCommandLoop(t) ==
    /\ sock[t] \in ClientConns
    /\ pc[t] \notin Stopped \cup OutsideLoop
    /\ \A i \in 1..Len(stack[t]) : stack[t][i] # "disc_ui"

\* C1: once the command loop has read the opcode of a SET or DO command other
\* than DO_EXECUTE_SCRIPT, the first byte sent to the client is that opcode
\* sent by the loop, and no payload byte is read before it has been sent.
AckBeforePayload ==
    \A t \in ListenerThreads :
        cmd[t] \in AckOps =>
            /\ sent[t] # <<>> => sent[t][1] = <<t, cmd[t], None>>
            /\ payload_read[t] => sent[t] # <<>>

\* C2: at most one command loop is alive, and no listener is inside accept()
\* while another listener's command loop is alive.
SingleSession ==
    /\ Cardinality({t \in ListenerThreads : InCommandLoop(t)}) <= 1
    /\ \A t, u \in ListenerThreads :
           pc[t] = "accept_wait" /\ u # t => ~InCommandLoop(u)

\* C3: a failed send() or recv() on the client connection ends the session and
\* leaves the listener thread running, on its way back to accept(): no
\* listener thread is ended by the socket error.
TransportFailureEndsSession ==
    \A t \in ListenerThreads : pc[t] \notin {"dead_send", "dead_recv"}

\* C4: once a payload recv() of an acknowledged command has returned '' (the
\* peer closed early), _tcp_recv makes no further recv() call.
PayloadEofTerminates ==
    \A t \in ListenerThreads :
        cmd[t] \in AckOps /\ eof_seen[t] => pc[t] # "tcp_recv_call"

\* C5: SET_CURRENT_CAMERA with an index not less than the length of the list
\* last sent (65535 included) leaves the command loop alive.
SentinelIndexIgnored ==
    \A t \in ListenerThreads :
        ( /\ cmd[t] = CMD_SET_CURRENT_CAMERA
          /\ scene_cameras # NoList
          /\ data[t] # None
          /\ data[t] >= Len(scene_cameras) ) => pc[t] \notin DeadPcs

\* opcodes whose handler needs the selected camera
NeedsCamera ==
    {CMD_ASK_CAMERA_MATRIX, CMD_SET_CAMERA_MATRIX, CMD_SET_FOCAL_LENGTH,
     CMD_SET_CAMERA_ALL, CMD_SET_CAMERA_MATRIX_AT_TIME, CMD_SET_FOCAL_LENGTH_AT_TIME,
     CMD_SET_CAMERA_ALL_AT_TIME, CMD_DO_REMOVE_CAMERA_KEYS, CMD_ASK_SCENE_STATUS,
     CMD_ASK_CAMERA_HAS_KEYS, CMD_DO_START_STREAMING}

\* C6: a handler that needs the selected camera and finds it gone, even when
\* it is deleted after the handler's existence check, carries on to the
\* ERR_MISSING_CAMERA reply and the next opcode: its host call never raises.
MissingCameraReplied ==
    \A t \in ListenerThreads :
        cmd[t] \in NeedsCamera /\ current_camera \notin cams
            => pc[t] # "dead_host"

\* C7: dispatching an opcode that is not in the routing table sends nothing,
\* reads no payload, changes no flag, session, scene, encoder, lock or socket
\* state, and returns to the head of the command loop.
UnknownOpcodeIgnored ==
    [][\A t \in ListenerThreads :
          ( /\ pc[t] = "check_cmd"
            /\ pc'[t] # "check_cmd"
            /\ is_serving
            /\ cmd[t] \notin KnownOps \cup {EOF} )
          => /\ pc'[t] = "cmd_loop"
             /\ UNCHANGED <<flags, session, cams, locks, encoder, ui_bt_serve, host, net, stack,
                            sent, scene_calls, payload_read>>]_vars

\* C7 witness: an unknown opcode was dropped and the loop is back at its head
UnknownOpcodeDropped ==
    \E t \in ListenerThreads :
        /\ cmd[t] \in UnknownOps
        /\ outcome[t] = "ignored"
        /\ pc[t] = "recv_cmd"

\* the replies _execute_script may send for index i
ScriptReplies(t, i) ==
    {<<t, CMD_DO_EXECUTE_SCRIPT, i>>, <<t, CMD_ERR_EXECUTE_SCRIPT, i>>}

\* C8 as stated: a finished DO_EXECUTE_SCRIPT has sent exactly one reply.
ExecuteScriptRepliesOnce ==
    \A t \in ListenerThreads :
        ( /\ cmd[t] = CMD_DO_EXECUTE_SCRIPT
          /\ outcome[t] \in {"ok", "script_error"}
          /\ pc[t] \notin DeadPcs ) => Len(OwnSent(t)) = 1

\* C8: DO_EXECUTE_SCRIPT sends nothing before the index is read; it sends at
\* most one reply, after the attempted action: the opcode and the index when
\* the script ran without error, ERR_EXECUTE_SCRIPT and the index when the
\* index is out of range, the script is empty or the action raised; the reply
\* step sends that reply exactly when the server is serving and connected.
ExecuteScriptReply ==
    /\ [](\A t \in ListenerThreads :
            cmd[t] = CMD_DO_EXECUTE_SCRIPT =>
              /\ Len(OwnSent(t)) <= 1
              /\ pc[t] \in {"_execute_script", "tcp_recv", "tcp_recv_test",
                            "tcp_recv_call", "es_index", "es_exec"}
                    => OwnSent(t) = <<>>
              /\ OwnSent(t) # <<>> =>
                    LET r == OwnSent(t)[1]
                        i == r[3]
                    IN /\ payload_read[t]
                       /\ r \in ScriptReplies(t, i)
                       /\ pc[t] = "cmd_loop" => i = data[t]
                       /\ r[2] = CMD_DO_EXECUTE_SCRIPT
                            <=> /\ i < ScriptCount
                                /\ ScriptCode(i) # ""
                                /\ scene_calls[t] = << <<"script", NoCamera>> >>
                                /\ outcome[t] = "ok"
                       /\ (i >= ScriptCount \/ ScriptCode(i) = "")
                            => scene_calls[t] = <<>>)
    /\ [][\A t \in ListenerThreads :
            ( /\ pc[t] \in {"es_reply", "es_error"}
              /\ pc'[t] = "cmd_loop"
              /\ is_serving /\ is_connected ) => Len(OwnSent(t)') = 1]_vars

\* C8 witness: a script ran and its success reply is the only byte sent
ScriptSuccessReplied ==
    \E t \in ListenerThreads :
        /\ cmd[t] = CMD_DO_EXECUTE_SCRIPT
        /\ outcome[t] = "ok"
        /\ OwnSent(t) = << <<t, CMD_DO_EXECUTE_SCRIPT, 1>> >>

\* C9: when no listener is in a session (each is at or before accept, has
\* returned, or was ended by a read error), streaming is off and no camera
\* is selected.
SessionStateReset ==
    (\A t \in ListenerThreads :
        pc[t] \in {"idle", "while_serving", "accept", "accept_wait", "stopped",
                   "dead_recv"})
      => ~is_streaming /\ current_camera = NoCamera

\* C10: DO_START_STREAMING that finds the server streaming returns at once:
\* the handler goes back to the command loop, launches no encoder, starts no
\* autosend thread, leaves the flags and the encoder pipe as they are, and
\* the acknowledgment stays the only byte the command has sent.
StartWhileStreamingIgnored ==
    [][\A t \in ListenerThreads :
          ( /\ pc[t] = "st_check"
            /\ pc'[t] # "st_check"
            /\ data[t] # None
            /\ is_streaming )
          => /\ pc'[t] = "cmd_loop"
             /\ \A a \in AutosendThreads : pc'[a] = pc[a]
             /\ UNCHANGED <<flags, encoder, session, stack>>
             /\ OwnSent(t)' = << <<t, CMD_DO_START_STREAMING, None>> >>]_vars

\* C10 witness: a second DO_START_STREAMING was dropped while the encoder of
\* the first is running
SecondStartDropped ==
    \E t \in ListenerThreads :
        /\ cmd[t] = CMD_DO_START_STREAMING
        /\ outcome[t] = "already_streaming"
        /\ is_streaming /\ proc = "running"

\* listener t is in the except clause of the encoder launch (lines 510-514)
InLaunchExcept(t) ==
    \/ pc[t] \in {"st_err", "st_rollback", "st_failed"}
    \/ \E i \in 1..Len(stack[t]) : stack[t][i] = "st_failed"

\* C11: when the encoder launch of DO_START_STREAMING fails, the handler
\* replies ERR_FFMPEG after the acknowledgment and nothing else, ends with
\* the streaming flag false and the streaming view removed, starts no
\* autosend thread while it handles the failure, and returns to the command
\* loop of the same connected session.
LaunchFailureRolledBack ==
    /\ [](\A t \in ListenerThreads :
            outcome[t] = "ffmpeg_error" =>
              /\ OwnSent(t) = << <<t, CMD_DO_START_STREAMING, None>>,
                                 <<t, CMD_ERR_FFMPEG, None>> >>
              /\ ~is_streaming
              /\ ui_view = "text"
              /\ pc[t] \notin DeadPcs)
    /\ [][\A t \in ListenerThreads :
            /\ InLaunchExcept(t) =>
                 \A a \in AutosendThreads : pc[a] \in Stopped => pc'[a] \in Stopped
            /\ (pc[t] = "st_failed" /\ pc'[t] # "st_failed") =>
                 /\ pc'[t] = "cmd_loop"
                 /\ is_serving' /\ is_connected' /\ ~is_streaming'
                 /\ clt_socket' = clt_socket]_vars

\* C11 witness: a launch that asked for autosend failed, the handler is over
\* and the command loop waits for the next opcode of the session
LaunchFailureReplied ==
    \E t \in ListenerThreads :
        /\ cmd[t] = CMD_DO_START_STREAMING
        /\ outcome[t] = "ffmpeg_error"
        /\ is_autosend
        /\ pc[t] = "recv_cmd"
        /\ is_connected
        /\ conn[sock[t]] = "open"

\* C12: an ASK_VIEWPORT_IMG that the command loop processes while the
\* streaming flag is false is answered with ERR_NOT_STREAMING: when the
\* handler leaves its not-streaming branch without a send error, that reply is
\* the one byte the listener has sent for the command.
ViewportRequestRefused ==
    [][\A t \in ListenerThreads :
          ( /\ cmd[t] = CMD_ASK_VIEWPORT_IMG
            /\ pc[t] = "svi_not_streaming"
            /\ pc'[t] \notin {"svi_not_streaming"} \cup DeadPcs )
          => OwnSent(t)' = << <<t, CMD_ERR_NOT_STREAMING, None>> >>]_vars

\* C13: a frame write that fails is followed by the teardown of the pipeline
\* and then by ERR_NOT_STREAMING when the frame was requested by the client
\* (the command loop wrote it), and by no byte to the client when the
\* autosend loop pushed it.
WriteFailureReply ==
    [][\A t \in ListenerThreads \cup AutosendThreads :
          /\ (pc[t] = "svi_except" /\ pc'[t] # "svi_except") => pc'[t] = "stop_streaming"
          /\ (pc[t] = "svi_error" /\ pc'[t] \notin {"svi_error"} \cup DeadPcs) =>
               IF t \in AutosendThreads
               THEN sent' = sent
               ELSE OwnSent(t)' = << <<t, CMD_ERR_NOT_STREAMING, None>> >>]_vars

\* positions of _stop_streaming after line 523, the launch failure's
\* _deinit_streaming_ui (line 512) left out
TeardownPcs == {"ss_close", "ss_closing", "ss_wait", "ss_autosend", "deinit_ui",
                "deinit_ui_host", "deinit_view"}

InTeardown(t) == pc[t] \in TeardownPcs /\ ~InLaunchExcept(t)

\* C14: DO_STOP_STREAMING and the session disconnect run the same teardown,
\* and the teardown is ordered: once it has begun the autosend thread writes
\* no further frame, the wait for the encoder starts only with the pipe
\* closed, and the streaming view is removed only with the encoder exited.
TeardownOrdered ==
    [][/\ \A t \in ListenerThreads :
            /\ (pc[t] = "do_stop_streaming" /\ pc'[t] # pc[t]) => pc'[t] = "stop_streaming"
            /\ (pc[t] = "disc_streaming" /\ is_streaming /\ pc'[t] # pc[t]) =>
                 pc'[t] = "stop_streaming"
       /\ \A a \in AutosendThreads :
            (pc[a] = "svi_writing" /\ pc'[a] \notin {"svi_writing", "svi_except"}) =>
               ~\E t \in ListenerThreads : InTeardown(t)
       /\ \A t \in ListenerThreads :
            /\ (InTeardown(t) /\ pc[t] = "ss_wait" /\ pc'[t] # pc[t]) => fout = "closed"
            /\ (InTeardown(t) /\ pc[t] = "deinit_ui_host" /\ pc'[t] # pc[t]) =>
                 fout = "closed" /\ proc = "exited"]_vars

\* C15: DO_STOP_STREAMING processed while the server is not streaming does
\* nothing beyond its acknowledgment: _stop_streaming returns to the command
\* loop at once, with no flag, pipe, encoder, lock or view changed, no error
\* raised and no further byte sent.
StopWhileNotStreamingIgnored ==
    [][\A t \in ListenerThreads :
          ( /\ cmd[t] = CMD_DO_STOP_STREAMING
            /\ pc[t] = "stop_streaming"
            /\ stack[t] = <<"cmd_loop">>
            /\ ~is_streaming
            /\ pc'[t] # pc[t] )
          => /\ pc'[t] = "cmd_loop"
             /\ UNCHANGED <<flags, encoder, locks, host, session, sent>>
             /\ OwnSent(t) = << <<t, CMD_DO_STOP_STREAMING, None>> >>]_vars

\* C15 witness: DO_STOP_STREAMING was processed on a server that has never
\* streamed, and the handler is back in the command loop
StopOnIdleServer ==
    \E t \in ListenerThreads :
        /\ cmd[t] = CMD_DO_STOP_STREAMING
        /\ outcome[t] = "stop_streaming"
        /\ pc[t] = "cmd_loop"
        /\ ~is_streaming /\ proc = Unset /\ fout = Unset

\* C16: within one serving lifetime, once a client has been accepted no
\* announcement thread is started, no service record is registered and none
\* is re-registered.
AnnouncementStopsForGood ==
    [][had_client =>
         \A a \in AnnounceThreads :
            /\ ~(pc[a] \in Stopped /\ pc'[a] \notin Stopped)
            /\ ~(pc[a] = "_server_register" /\ pc'[a] # pc[a])
            /\ ~(pc[a] = "announce_sleep" /\ pc'[a] # pc[a] /\ is_serving /\ ~is_connected)]_vars

\* the stop routine has made its loopback connection (line 1194)
LoopbackMade == \E k \in Loopbacks : conn[k] # "closed"

ExecutorPcs == {"st_ui_host", "deinit_ui_host", "svi_buffer"}

InExecutor == {t \in Threads : pc[t] \in ExecutorPcs}

\* C18: at most one thread is inside the host executor call at any time, and
\* it is the thread that holds the executor's lock.
HostExecutorExclusive ==
    /\ Cardinality(InExecutor) <= 1
    /\ \A t \in InExecutor : maya_lock = t

\* C18 witness: one thread is inside the executor while the stop routine or
\* another worker stands at its own executor call and has to wait
ExecutorCallerWaits ==
    \E t \in InExecutor :
        \E u \in Threads \ {t} :
            \/ pc[u] \in {"st_ui", "deinit_ui"}
            \/ pc[u] = "svi_capture" /\ ~is_streaming_screenshot

\* positions where a thread captures a frame of the viewport (lines 530-544)
CapturePcs == {"svi_buffer", "svi_screenshot"}

\* C19: every frame capture is performed inside the host executor, in both
\* capture modes: a thread that captures a frame holds the executor's lock,
\* as does every thread that changes the streaming view.
CaptureInsideExecutor ==
    \A t \in Threads :
        pc[t] \in CapturePcs \cup ExecutorPcs => maya_lock = t

\* threads that are writing a frame to the encoder pipe (line 559) or closing
\* the pipe (line 525)
UsingPipe == {t \in Threads : pc[t] \in {"svi_writing", "ss_closing"}}

\* C20: the close of the encoder pipe never overlaps a frame write and two
\* frame writes never overlap: at most one thread is writing to or closing
\* the pipe, and it holds the pipe's lock.
PipeExclusive ==
    /\ Cardinality(UsingPipe) <= 1
    /\ \A t \in UsingPipe : fout_lock = t

\* C20 witness: the autosend thread is writing a frame while the command loop
\* stands at the close of the teardown or at the write of a pulled frame
PipeUserWaits ==
    \E a \in AutosendThreads :
        /\ pc[a] = "svi_writing"
        /\ \E t \in ListenerThreads : pc[t] \in {"ss_close", "svi_write"}

\* threads inside the with-block of _tcp_recv (lines 367-375) or of _tcp_send
\* (lines 358-360)
InSocket == {t \in Threads : pc[t] \in {"tcp_recv_test", "tcp_recv_call", "tcp_sending"}}

\* a step that sends bytes to the client
SendsBytes == \E h \in ListenerThreads : Len(sent'[h]) > Len(sent[h])

\* C21: sends to the client socket and payload reads from it are serialized
\* by one lock: at most one thread is inside a payload read or a send, it
\* holds the socket lock, and no step sends bytes while another thread is in
\* the middle of a payload read or of a send.
SocketExclusive ==
    /\ [](/\ Cardinality(InSocket) <= 1
          /\ \A t \in InSocket : tcp_lock = t)
    /\ [][SendsBytes => \A u \in InSocket : pc[u] = "tcp_sending" /\ pc'[u] # pc[u]]_vars

\* C21 witness: the command loop has read a part of a payload while the
\* callback's thread and the autosend thread both stand at a send
SocketSenderWaits ==
    \E t \in ListenerThreads :
        /\ pc[t] = "tcp_recv_call" /\ got[t] >= 1
        /\ pc[CallbackThread] = "_send_script_info"
        /\ \E a \in AutosendThreads : pc[a] = "svi_error"

Bit(b, n) == (b \div (2 ^ n)) % 2

\* C23: in the ASK_CAMERA_HAS_KEYS reply, bit 0 is set exactly when the
\* transform or the focal length has keys (it is the single boolean of the
\* older reply), bit 1 exactly when the transform has keys, bit 2 exactly
\* when the focal length has keys, and every other bit is zero.
CameraHasKeysPacked ==
    input[1] = "_send_camera_has_keys" =>
        LET keyed == input[2]
            focalHasKeys == ".focalLength" \in keyed
            transformHasKeys == keyed \ {".focalLength"} # {}
        IN /\ output \in 0..7
           /\ Bit(output, 0) = 1 <=> (transformHasKeys \/ focalHasKeys)
           /\ Bit(output, 0) = _get_camera_has_keys_bool(keyed)
           /\ Bit(output, 1) = 1 <=> transformHasKeys
           /\ Bit(output, 2) = 1 <=> focalHasKeys

\* C23 witness: a camera with keys on the focal length and on two transform
\* attributes was packed
CameraHasKeysBoth ==
    /\ input = <<"_send_camera_has_keys", {".focalLength", ".ty", ".rz"}>>
    /\ output = 7

\* C24: a matrix taken from the protocol to the host and back, and a matrix
\* taken from the host to the protocol and back, is the matrix itself, when
\* the host is Z-up and when it is Y-up.
UpAxisRoundTrip ==
    (input[1] = "up_axis" /\ output # Unset) =>
        output[2] = input[3] /\ output[3] = input[3]

\* C24 witness: on a Z-up host a matrix was changed by the conversion to the
\* host and restored by the conversion back
UpAxisSwapped ==
    /\ input[1] = "up_axis" /\ input[2]
    /\ output # Unset
    /\ output[1] # input[3]
    /\ output[2] = input[3]
    /\ At(input[3], 1, 2) = 1 /\ At(input[3], 1, 3) = -1

\* the values of option opt in the encoder's command line
OptionValues(cmdline, opt) ==
    {cmdline[i][2] : i \in {j \in 1..Len(cmdline) : cmdline[j][1] = opt}}

\* the options that set the bitrate of a plane
BitrateOptions(cmdline) ==
    {cmdline[i][1] : i \in {j \in 1..Len(cmdline) :
                               cmdline[j][1] \in {"-b:v", "-b:v:0", "-b:v:1"}}}

\* C25: a non-opaque stream of total bitrate B has two planes, RGB at 0.8*B
\* and alpha at 0.2*B, each to the nearest kbit/s (the three decimals of the
\* encoder's argument, exact when B is a multiple of 5 kbit/s), and the two
\* sum to B; an opaque stream has a single plane at bitrate B.
BitrateSplit ==
    (input[1] = "_get_ffmpeg_cmd" /\ output # Unset) =>
        LET B == input[2]
            opaque == input[3]
        IN IF opaque
           THEN /\ BitrateOptions(output) = {"-b:v"}
                /\ OptionValues(output, "-b:v") = {B}
                /\ OptionValues(output, "-map") = {}
           ELSE /\ BitrateOptions(output) = {"-b:v:0", "-b:v:1"}
                /\ OptionValues(output, "-map") = {"[rgbout]", "[alphaout]"}
                /\ Cardinality(OptionValues(output, "-b:v:0")) = 1
                /\ Cardinality(OptionValues(output, "-b:v:1")) = 1
                /\ LET rgb == CHOOSE v \in OptionValues(output, "-b:v:0") : TRUE
                       alpha == CHOOSE v \in OptionValues(output, "-b:v:1") : TRUE
                   IN /\ rgb + alpha = B
                      /\ 10 * rgb - 8 * B \in -4..4
                      /\ 10 * alpha - 2 * B \in -4..4

\* C25 witness: a non-opaque stream of 10 Mbit/s is split into 8 and 2
BitrateSplitTen ==
    /\ input[1] = "_get_ffmpeg_cmd" /\ input[2] = 10000 /\ ~input[3]
    /\ output # Unset
    /\ OptionValues(output, "-b:v:0") = {8000}
    /\ OptionValues(output, "-b:v:1") = {2000}

\* bytes of payload the protocol defines for a SET or DO opcode (the comment
\* at the head of each handler); the two batch opcodes carry a 2-byte count
\* and then count tuples
PayloadLen(op) ==
    CASE op = CMD_SET_PLAYBACK_RANGE -> 16
      [] op = CMD_SET_CURRENT_TIME -> 8
      [] op = CMD_SET_CURRENT_CAMERA -> 2
      [] op = CMD_SET_CAMERA_MATRIX -> 128
      [] op = CMD_SET_CAMERA_MATRIX_AT_TIME -> 136
      [] op = CMD_SET_FOCAL_LENGTH -> 8
      [] op = CMD_SET_FOCAL_LENGTH_AT_TIME -> 16
      [] op = CMD_SET_CAMERA_ALL -> 136
      [] op = CMD_SET_CAMERA_ALL_AT_TIME -> 144
      [] op = CMD_SET_CAMERA_MATRIX_KEYS -> 2
      [] op = CMD_SET_CAMERA_FLEN_KEYS -> 2
      [] op = CMD_DO_START_STREAMING -> 12
      [] op = CMD_DO_START_PLAYBACK -> 1
      [] op = CMD_DO_EXECUTE_SCRIPT -> 1
      [] OTHER -> 0

BatchOps == {CMD_SET_CAMERA_MATRIX_KEYS, CMD_SET_CAMERA_FLEN_KEYS}

\* C26: a handler of a SET or DO opcode that has returned to the command loop
\* of a live session, whatever its outcome, has consumed the payload of its
\* opcode: it has read payload bytes if the opcode has any, and its read asked
\* for exactly the bytes the opcode defines.
PayloadFramingKept ==
    \A t \in ListenerThreads :
        ( /\ pc[t] = "cmd_loop"
          /\ cmd[t] \in AckOps \cup {CMD_DO_EXECUTE_SCRIPT}
          /\ outcome[t] \notin {"none", "running", "no_data"} )
        => /\ PayloadLen(cmd[t]) > 0 => payload_read[t]
           /\ cmd[t] \notin BatchOps => want[t] = PayloadLen(cmd[t])

\* C27: autosend implies streaming. In every state where no thread is inside
\* _start_streaming (from the flag assignments of lines 490-492 on) or inside
\* _stop_streaming, is_autosend is true only if is_streaming is true.
StartPcs == {"st_set", "st_ui", "st_ui_host", "st_popen", "st_err", "st_rollback",
             "st_failed", "st_fout", "st_autosend"}

StreamingSettled ==
    \A t \in DOMAIN pc :
        pc[t] \notin StartPcs \cup TeardownPcs \cup {"stop_streaming", "ss_clear"}

AutosendImpliesStreaming ==
    StreamingSettled => (is_autosend => is_streaming)

\* C28: teardown runs once per streaming session and pipelines never overlap.
\* At most one thread is past the test of line 521 and inside the teardown body
\* of _stop_streaming (lines 523-528) at a time, and _start_streaming launches
\* its encoder (line 509) only while no thread is inside that body.
TearingDown == {t \in DOMAIN pc : pc[t] = "ss_clear" \/ InTeardown(t)}

EncoderLaunched == \E t \in ListenerThreads : pc[t] = "st_popen" /\ pc'[t] = "st_fout"

TeardownOncePipelinesDisjoint ==
    [][ /\ Cardinality(TearingDown) <= 1
        /\ EncoderLaunched => TearingDown = {} ]_vars

\* C29: at most one autosend worker. At most one _autosend_loop is running, and
\* a loop never sends a frame into a later streaming session: a frame written
\* by an autosend loop while the server is streaming, with no start and no
\* teardown in progress, belongs to a session that was started with autosend
\* set (a session started without it has no loop of its own).
RunningLoops == {a \in AutosendThreads : pc[a] \notin Stopped}

WritesFrame(a) == pc[a] = "svi_writing" /\ fout = "open" /\ proc = "running"

OneAutosendLoopPerSession ==
    /\ Cardinality(RunningLoops) <= 1
    /\ \A a \in AutosendThreads :
           (WritesFrame(a) /\ is_streaming /\ StreamingSettled) => is_autosend

\* ------------------------------------------- the older variant's stop
\* src/virtuCameraMaya/virtuCameraMaya.py. _stop_serving and _close_ui (lines
\* 183-188) call self._stop() themselves, so _stop (lines 1044-1054) runs on
\* the host's main thread: the thread that utils.executeInMainThreadWithResult
\* (line 356) waits for in every _maya_exec of another thread. pc[HostThread]
\* is "idle" while the host is free to run such a call. _tcp_send, _tcp_recv,
\* _maya_exec and the listener loop are the newer variant's, statement by
\* statement, but for the test of line 1013.
HostIdle == pc[HostThread] = "idle"

\* lines 1032-1042: _serve, a button callback; _server_register (lines 963-976)
\* is called here, on the host thread
_serve_on_host ==
    /\ HostIdle
    /\ ui_bt_serve = "start"
    /\ ~is_serving
    /\ \E bound \in BOOLEAN :
        LET t == FreeThread(ListenerNames, MaxListeners) IN
        /\ t # Unset
        /\ is_serving' = TRUE
        /\ had_client' = FALSE
        /\ IF bound
           THEN /\ srv_socket' = "listening"
                /\ backlog' = <<>>
                /\ Goto(t, "while_serving")
                /\ \E ips \in BOOLEAN : zconf' = IF ips THEN "registered" ELSE "empty"
                /\ ui_bt_serve' = "stop"
           ELSE UNCHANGED <<ui_bt_serve, srv_socket, backlog, pc, zconf>>
    /\ UNCHANGED <<is_connected, is_streaming, is_autosend, session, cams, calc, locks,
                   encoder, host, is_announcing, clt_socket, conn, stack, locals,
                   ghost>>

\* lines 183-188 and 1044-1054: _stop on the host thread
_stop_on_host ==
    \/ /\ pc[HostThread] = "idle"                 \* lines 183-188: the callback
       /\ ui_bt_serve = "stop"
       /\ Goto(HostThread, "hs_lock")
       /\ UNCHANGED <<flags, session, cams, calc, locks, encoder, ui_bt_serve, host, announce, net,
                      stack, locals, ghost>>
    \/ /\ pc[HostThread] = "hs_lock"              \* lines 1045-1047
       /\ tcp_lock = Free
       /\ IF is_serving
          THEN /\ is_serving' = FALSE
               /\ tcp_lock' = HostThread
               /\ Goto(HostThread, "hs_if_streaming")
          ELSE /\ UNCHANGED <<is_serving, tcp_lock>>
               /\ Goto(HostThread, "idle")
       /\ UNCHANGED <<is_connected, is_streaming, is_autosend, session, cams, calc, fout_lock,
                      encoder, ui_bt_serve, host, announce, net, stack, locals, ghost>>
    \/ /\ pc[HostThread] = "hs_if_streaming"      \* lines 1048-1049
       /\ IF is_streaming
          THEN Call(HostThread, "stop_streaming", "hs_if_connected")
          ELSE Goto(HostThread, "hs_if_connected") /\ UNCHANGED stack
       /\ UNCHANGED <<flags, session, cams, calc, locks, encoder, ui_bt_serve, host, announce, net,
                      locals, ghost>>
    \/ /\ pc[HostThread] = "hs_if_connected"      \* lines 1050-1051, 1027-1030
       /\ IF is_connected
          THEN UNCHANGED <<conn, backlog>>
          ELSE \E k \in Loopbacks :
                 /\ Reusable(k)
                 /\ conn' = [conn EXCEPT ![k] = "pending"]
                 /\ backlog' = Append(backlog, k)
       /\ Goto(HostThread, "hs_close")
       /\ UNCHANGED <<flags, session, cams, calc, locks, encoder, ui_bt_serve, host, announce,
                      srv_socket, clt_socket, stack, locals, ghost>>
    \/ /\ pc[HostThread] = "hs_close"             \* line 1052
       /\ srv_socket' = "closed"
       /\ IF \E t \in ListenerThreads : pc[t] = "accept_wait"
          THEN UNCHANGED <<backlog, conn>>
          ELSE /\ backlog' = <<>>
               /\ conn' = [k \in Conns |-> IF conn[k] = "pending" THEN "closed" ELSE conn[k]]
       /\ Goto(HostThread, "hs_unregister")
       /\ UNCHANGED <<flags, session, cams, calc, locks, encoder, ui_bt_serve, host, announce,
                      clt_socket, stack, locals, ghost>>
    \/ /\ pc[HostThread] = "hs_unregister"        \* lines 1053, 355: with self._maya_lock
       /\ maya_lock = Free
       /\ maya_lock' = HostThread
       /\ Goto(HostThread, "hs_unregister_host")
       /\ UNCHANGED <<flags, session, cams, calc, locks, encoder, ui_bt_serve, announce, ui_view,
                      is_streaming_screenshot, capture, net, stack, locals, ghost>>
    \/ /\ pc[HostThread] = "hs_unregister_host"   \* lines 356, 978-980: called at once
       /\ zconf' = "closed"
       /\ maya_lock' = Free
       /\ Goto(HostThread, "hs_stopped_ui")
       /\ UNCHANGED <<flags, session, cams, calc, locks, encoder, ui_bt_serve, is_announcing,
                      had_client, ui_view, is_streaming_screenshot, capture, net, stack,
                      locals, ghost>>
    \/ /\ pc[HostThread] = "hs_stopped_ui"        \* line 1054, end of the with-block
       /\ ui_bt_serve' = "start"
       /\ tcp_lock' = Free
       /\ Goto(HostThread, "idle")
       /\ UNCHANGED <<flags, session, cams, calc, fout_lock, encoder, host, announce, net, stack,
                      locals, ghost>>

\* line 1013: if cmd (the newer variant tests self.is_serving as well)
check_cmd_on_host(t) ==
    /\ pc[t] = "check_cmd"
    /\ IF cmd[t] # EOF
       THEN /\ Goto(t, _proccess_command(cmd[t]))
            /\ outcome' = [outcome EXCEPT ![t] =
                              IF _proccess_command(cmd[t]) = "cmd_loop"
                              THEN "ignored" ELSE @]
       ELSE Goto(t, "disconnect") /\ UNCHANGED outcome
    /\ UNCHANGED <<flags, session, cams, calc, locks, encoder, ui_bt_serve, host, announce, net,
                   stack, locals, sent, scene_calls, payload_read, eof_seen>>

\* lines 505-513 with _maya_exec (lines 354-357) in its two steps: the caller
\* takes self._maya_lock, then waits until the host thread runs the call
_set_camera_transform_on_host(t) ==
    \/ RecvPayload(t, "_set_camera_transform", 128, "_transform_current_camera")
    \/ /\ pc[t] = "_transform_current_camera"     \* lines 507-508, 511, 355
       /\ IF data[t] = None
          THEN Done(t, "no_data") /\ UNCHANGED maya_lock
          ELSE /\ maya_lock = Free
               /\ maya_lock' = t
               /\ Goto(t, "maya_exec")
               /\ UNCHANGED outcome
       /\ UNCHANGED <<flags, session, cams, calc, locks, encoder, ui_bt_serve, announce, ui_view,
                      is_streaming_screenshot, capture, net, stack, locals, sent, scene_calls,
                      payload_read, eof_seen>>
    \/ /\ pc[t] = "maya_exec"                     \* lines 356, 500-504, 512-513
       /\ HostIdle
       /\ maya_lock' = Free
       /\ IF current_camera \in cams
          THEN /\ scene_calls' = [scene_calls EXCEPT ![t] = Append(@, <<"xform", current_camera>>)]
               /\ Done(t, "ok")
          ELSE /\ Goto(t, "missing_camera")
               /\ UNCHANGED <<scene_calls, outcome>>
       /\ UNCHANGED <<flags, session, cams, calc, locks, encoder, ui_bt_serve, announce, ui_view,
                      is_streaming_screenshot, capture, net, stack, locals, sent,
                      payload_read, eof_seen>>

\* positions of the listener whose step is a _maya_exec made in one step
\* (lines 1006-1007, 1021-1022)
HostCallPcs == {"connected", "disc_ui"}

\* a call handed to the host thread runs only while the host thread is free
OnHost(t) == (maya_lock = t \/ pc[t] \in HostCallPcs) => HostIdle

ListenerStepOnHost(t) ==
    /\ OnHost(t)
    /\ \/ while_serving(t, 0) \/ accept_call(t) \/ accept_return(t) \/ accepted(t)
       \/ cmd_loop(t) \/ recv_cmd(t, OnceOps) \/ check_cmd_on_host(t) \/ ack(t)
       \/ disconnect(t) \/ disc_streaming(t) \/ disc_ui(t) \/ close(t)
       \/ tcp_recv(t) \/ tcp_recv_test(t) \/ tcp_recv_call(t)
       \/ missing_camera(t) \/ stopped(t)
       \/ _set_camera_transform_on_host(t)

\* One serving lifetime of the older variant that is stopped from the UI.
NextOnHost ==
    \/ srv_socket = Unset /\ _serve_on_host
    \/ _stop_on_host
    \/ \E t \in ListenerThreads : ListenerStepOnHost(t)
    \/ Client

SpecOnHost == Init /\ [][NextOnHost]_vars

\* C30: stop completes without deadlock, in the newer variant (stop on a thread
\* of its own) and in the older variant (stop on the host thread). No state is
\* reachable in which the thread that runs _stop waits for the host-executor
\* lock while the holder of that lock waits for that very thread to run its
\* call.
StopWaitsForExecutor == pc[HostThread] = "hs_unregister" /\ maya_lock # Free

StopNeverInWaitCycle ==
    ~(StopWaitsForExecutor /\ \E t \in ListenerThreads : maya_lock = t /\ pc[t] = "maya_exec")

\* an announcement thread emits a re-registration (line 1142)
ReRegisters(a) == pc[a] = "re_register" /\ pc'[a] # pc[a]

\* an announcement thread evaluates the condition of its loop (line 1138)
TestsLoop(a) == pc[a] = "announce_while" /\ pc'[a] # pc[a]

\* C31: the announcement loop re-registers the record once per interval while
\* the server is serving and no client is connected; it emits no
\* re-registration in a state where a client is connected or the server is
\* stopped; and when the server is stopped or a client is connected at the end
\* of an interval, the loop exits and withdraws the record, once.
AnnouncementLoopPeriodAndExit ==
    [][\A a \in AnnounceThreads :
          /\ ReRegisters(a) => (is_serving /\ ~is_connected)
          /\ TestsLoop(a) =>
                pc'[a] = (IF is_serving /\ ~is_connected
                          THEN "announce_sleep" ELSE "announce_end")
          /\ (pc[a] = "_server_unregister" /\ pc'[a] # pc[a]) =>
                (pc'[a] = "idle" /\ zconf' = "closed")]_vars

\* announcement threads that have been started and have not returned
AnnouncersAlive == {a \in AnnounceThreads : pc[a] \notin Stopped}

\* positions inside the while loop of lines 1138-1142
AnnounceLoopPcs == {"announce_while", "announce_sleep", "re_register"}

\* C32: at most one announcement loop thread is alive, and the record it
\* advertises is the one registered for the listener: while a thread is in the
\* loop, the service record has not been closed under it.
OneAnnouncementLoop ==
    /\ Cardinality(AnnouncersAlive) <= 1
    /\ \A a \in AnnounceThreads : pc[a] \in AnnounceLoopPcs => zconf # "closed"

\* an iteration of the autosend loop has been made
Iterated == input[1] = "_autosend_loop" /\ output.slept # Unset

\* the iteration slept until its deadline and advanced it by one interval
SleptAndAdvanced ==
    /\ output.slept = "slept"
    /\ output.clock = output.deadline
    /\ output.sleep_until = output.deadline + input[2]

\* the iteration did not sleep and set the deadline to now + interval
ResetToNow ==
    /\ output.slept = "reset"
    /\ output.clock = output.now
    /\ output.sleep_until = output.now + input[2]

\* C33 as stated: an iteration whose deadline is still in the future sleeps
\* until it and advances it by one interval; an iteration that finds the
\* deadline reached or passed resets it to now + interval; after every
\* iteration the deadline is later than the time the iteration sampled.
FixedRateScheduling ==
    Iterated =>
        /\ IF output.deadline > output.now THEN SleptAndAdvanced ELSE ResetToNow
        /\ output.sleep_until > output.now

\* C33 amended: the iteration sleeps and advances only if the deadline is in
\* the future and the clock has moved on since the sample of the iteration
\* before (0 for the first); in every other case it resets the deadline to
\* now + interval without sleeping; after every iteration the deadline is
\* later than the time the iteration sampled.
FixedRateSchedulingClockMoved ==
    Iterated =>
        /\ IF output.deadline > output.now /\ output.now > output.before
           THEN SleptAndAdvanced ELSE ResetToNow
        /\ output.sleep_until > output.now

\* C33 witness: an iteration found its deadline in the future and the clock
\* where the iteration before had sampled it, and did not sleep
DeadlineAheadClockStill ==
    /\ Iterated
    /\ output.deadline > output.now
    /\ output.now = output.before
    /\ output.before > 0
    /\ output.slept = "reset"

\* the value the host is given for a value of the wire: a focal length as it
\* is, a matrix in the host's up axis
HostValue(is_matrix, is_z_up, v) ==
    IF is_matrix THEN _vc_to_maya_up_axis(is_z_up, v) ELSE v[1]

BatchHostPcs == {"_maya_set_camera_matrix_keys", "_maya_set_camera_flen_keys"}

\* C35: when a batch handler has read its batch (of any count, 0 included) on
\* a serving, connected session and the selected camera does not exist, its
\* next step is the ERR_MISSING_CAMERA reply, and it sets no key.
BatchMissingCameraReplied ==
    [][\A t \in ListenerThreads :
          ( /\ pc[t] \in BatchHostPcs
            /\ pc'[t] # pc[t]
            /\ is_serving /\ is_connected
            /\ conn[clt_socket] = "open"
            /\ ~eof_seen[t]
            /\ current_camera \notin cams )
          => /\ pc'[t] = "missing_camera"
             /\ scene_calls'[t] = scene_calls[t]]_vars

\* the camera list reply listener t has just sent, as <<index, names>>
ListReply(t) == sent'[t][Len(sent'[t])][3]

\* C36: the index of an ASK_SCENE_CAMERAS reply is the 0-based position of the
\* current camera in the names of that reply, or 65535 when the current camera
\* is none of them; the names sent are the cached list, which changes only
\* when a reply is prepared; and SET_CURRENT_CAMERA with an index below the
\* length of the cached list selects the name at that index if the camera
\* exists, whatever the scene holds by then, and else changes nothing.
CameraIndexRoundTrip ==
    [][/\ \A t \in ListenerThreads :
            (pc[t] = "ssc_reply" /\ Len(sent'[t]) > Len(sent[t])) =>
                LET idx == ListReply(t)[1]
                    names == ListReply(t)[2]
                IN /\ names = scene_cameras'
                   /\ \/ /\ idx = NoCameraIndex
                         /\ \A k \in 1..Len(names) : names[k] # current_camera
                      \/ /\ idx < Len(names)
                         /\ names[idx + 1] = current_camera
       /\ scene_cameras' # scene_cameras =>
            \E t \in ListenerThreads :
                pc[t] = "_send_scene_cameras" /\ pc'[t] = "ssc_reply"
       /\ \A t \in ListenerThreads :
            ( /\ pc[t] = "scc_index" /\ pc'[t] # pc[t]
              /\ data[t] # None
              /\ data[t] < Len(scene_cameras) ) =>
                IF scene_cameras[data[t] + 1] \in cams
                THEN current_camera' = scene_cameras[data[t] + 1]
                ELSE current_camera' = current_camera /\ pc'[t] = "missing_camera"]_vars

\* C36 witness: the second name of the list sent was selected after the first
\* camera had been deleted, when the scene's own list has one name only
SelectedFromCachedList ==
    \E t \in ListenerThreads :
        /\ cmd[t] = CMD_SET_CURRENT_CAMERA
        /\ pc[t] = "scc_look"
        /\ data[t] = 1
        /\ Len(scene_cameras) = 2
        /\ current_camera = scene_cameras[2]
        /\ Len(_get_scene_cameras) = 1

\* the opcodes of the ASK range
AskRange == 0..49

\* listener t takes a step of the handler of an ASK opcode
AskStep(t) ==
    /\ cmd[t] \in AskRange
    /\ InCommandLoop(t)
    /\ pc[t] \notin {"cmd_loop", "recv_cmd", "check_cmd"}
    /\ pc'[t] # pc[t]

\* the step reads nothing and leaves the session state and the scene alone
NothingMutated(t) ==
    /\ pc[t] \notin {"tcp_recv", "tcp_recv_test", "tcp_recv_call"}
    /\ payload_read'[t] = payload_read[t]
    /\ UNCHANGED <<current_camera, is_streaming, is_autosend, encoder, cams, scene_calls>>

\* listener t is in the teardown that _send_viewport_img runs when its write
\* to the encoder has failed
InWriteFailureTeardown(t) ==
    /\ cmd[t] = CMD_ASK_VIEWPORT_IMG
    /\ \E i \in 1..Len(stack[t]) : stack[t][i] = "svi_error"

ServingFlagMatchesListener ==
    is_serving =>
        /\ srv_socket = "listening"
        /\ \E t \in ListenerThreads : pc[t] \notin Stopped \cup DeadPcs

\* stop has returned, and every listener thread and every autosend loop has
\* ended
ServerWoundDown ==
    /\ pc[StopThread] = "idle"
    /\ ~is_serving
    /\ srv_socket = "closed"
    /\ \A t \in ListenerThreads \cup AutosendThreads : pc[t] = "idle"

\* C39: once stop has returned and the command thread has exited (and the
\* loops it started have ended), the streaming flag is false, no encoder is
\* alive and the encoder pipe is closed.
NoPipelineOutlivesServer ==
    ServerWoundDown =>
        /\ ~is_streaming
        /\ proc # "running"
        /\ fout # "open"
====
